---------------------------- MODULE Spec2Model ----------------------------
(***************************************************************************)
(* Model of brownie's TransactionReceipt confirmation tracking              *)
(* (brownie/network/transaction.py): the constructor, the background        *)
(* watcher _await_confirmation, wait(), replace(), and the node they poll.  *)
(*                                                                          *)
(* There is one watcher thread per record, named after its transaction,     *)
(* and the caller thread that constructs the records and may call wait()    *)
(* on them. A step is one access to shared state: an RPC, or a write to a   *)
(* record. None is modelled as 0 wherever the code only tests truthiness:   *)
(* block numbers and block hashes start at 1.                               *)
(***************************************************************************)
EXTENDS Integers, FiniteSets, Sequences, TLC

\* ---------------------------------------------------------------- bounds
MaxHeight == 3
MaxReorgs == 1
MaxConfs == 2
MaxCalls == 1

\* ------------------------------------------------------- program constants
Dropped == -2
Pending == -1
Reverted == 0
Confirmed == 1

\* A transaction and the replacement that replace() sends with the same
\* sender and nonce.
Original == "a"
Replacement == "b"
Txs == {Original, Replacement}
TxNonce == [t \in Txs |-> 0]

Threads == Txs \cup {"caller"}

VARIABLES
    height,     \* web3.eth.block_number
    included,   \* per transaction: its receipt on the node's current chain
    pooled,     \* per transaction: pending in the node's mempool
    reorgs,     \* reorganisations so far
    rec,        \* per transaction: the TransactionReceipt object's fields
    history,    \* state.TxHistory(): the tracked records, in insertion order
    th,         \* per thread: position and locals
    calls,      \* wait() and replace() calls so far
    tx,         \* trace access: the transaction and the node that serves its trace
    obj,        \* trace access: the record's cached trace fields
    rd,         \* trace access: per reader, the property access it is in
    inp,        \* trace functions: the input they are applied to
    out         \* trace functions: their result

\* The variables of the trace access and of the trace functions; the
\* confirmation tracker leaves them alone.
aside == <<tx, obj, rd, inp, out>>

\* The variables of the confirmation tracker.
tracker == <<height, included, pooled, reorgs, rec, history, th, calls>>

vars == <<height, included, pooled, reorgs, rec, history, th, calls, aside>>
chain == <<height, included, pooled, reorgs>>

\* ------------------------------------------------------------------ node

NoReceipt == [blockNumber |-> 0, blockHash |-> 0, status |-> 0]

\* The hash of block b of the chain the node follows after r reorganisations.
BlockHash(b, r) == b + (MaxHeight + 1) * r

\* web3.eth.get_transaction_receipt: the receipt, or TransactionNotFound
get_transaction_receipt(t) == included[t]

\* "receipt is not None and receipt['blockHash'] is not None"
HasReceipt(r) == r.blockHash # 0

\* web3.eth.get_transaction succeeds for a pending or a mined transaction
Known(t) == pooled[t] \/ HasReceipt(included[t])

\* web3.eth.get_transaction_count(sender): nonces used on the current chain
get_transaction_count ==
    Cardinality({TxNonce[t] : t \in {u \in Txs : HasReceipt(included[u])}})

\* The status a transaction executes with. The tracker copies it from the
\* receipt without looking at it.
ExecStatus(t) == IF t = Original THEN Confirmed ELSE Reverted

\* A block is mined holding transaction t; the node may forget (evict) the
\* pending transactions this one supersedes.
Mine(t, evict) ==
    /\ pooled[t]
    /\ height < MaxHeight
    /\ get_transaction_count = TxNonce[t]
    /\ height' = height + 1
    /\ included' = [included EXCEPT ![t] =
            [blockNumber |-> height + 1, blockHash |-> BlockHash(height + 1, reorgs),
             status |-> ExecStatus(t)]]
    /\ pooled' = [u \in Txs |-> pooled[u] /\ u # t /\ ~evict]
    /\ UNCHANGED <<reorgs, rec, history, th, calls, aside>>

\* A block is mined holding none of the transactions.
MineEmpty ==
    /\ height < MaxHeight
    /\ height' = height + 1
    /\ UNCHANGED <<included, pooled, reorgs, rec, history, th, calls, aside>>

\* Reorg: the block holding t is replaced by one without it; t goes back to
\* the mempool (back) or is lost.
ReorgOut(t, back) ==
    /\ reorgs < MaxReorgs
    /\ HasReceipt(included[t])
    /\ reorgs' = reorgs + 1
    /\ included' = [included EXCEPT ![t] = NoReceipt]
    /\ pooled' = [pooled EXCEPT ![t] = back]
    /\ UNCHANGED <<height, rec, history, th, calls, aside>>

\* Reorg: t ends up in another block b of the new chain.
ReorgMove(t, b) ==
    /\ reorgs < MaxReorgs
    /\ HasReceipt(included[t])
    /\ b \in 1..height
    /\ b # included[t].blockNumber
    /\ reorgs' = reorgs + 1
    /\ included' = [included EXCEPT ![t] =
            [blockNumber |-> b, blockHash |-> BlockHash(b, reorgs + 1),
             status |-> @.status]]
    /\ UNCHANGED <<height, pooled, rec, history, th, calls, aside>>

\* ---------------------------------------------------------------- records

\* lines 180-206: a new record, made with silent=False; confirmed is the
\* _confirmed event.
NewRecord == [status |-> Pending, block_number |-> 0, txindex |-> 0,
              gas_used |-> 0, logs |-> 0, confirmed |-> FALSE, silent |-> FALSE]

\* TransactionReceipt.confirmations
confirmations(t) ==
    IF rec[t].block_number = 0 THEN 0 ELSE height - rec[t].block_number + 1

\* A thread's position and the locals of _await_confirmation; todo holds the
\* records its final loop has still to mark. lost is history kept for the
\* claims, not a variable of the code: the block hash of the receipt the run
\* lost at lines 536-543, or 0.
Off == [pc |-> "off", tx |-> Original, required_confs |-> 0, sender_nonce |-> 0,
        receipt |-> NoReceipt, remaining_confs |-> 0, todo |-> <<>>, lost |-> 0]

Tx(x) == th[x].tx

\* Entry of _await_confirmation(block_number, required_confs) on record t:
\* nonce_time = 0 makes the first iteration read the transaction count.
Enter(l, t, confs) == [l EXCEPT !.pc = "nonce", !.tx = t, !.required_confs = confs,
                       !.sender_nonce = 0, !.receipt = NoReceipt,
                       !.remaining_confs = 0, !.todo = <<>>]

\* A thread whose call of _await_confirmation or wait has ended: its locals
\* are gone.
Ended(l, pc) == [Off EXCEPT !.pc = pc, !.tx = l.tx]

\* Where a thread goes when _await_confirmation returns.
Finish(x) == IF x = "caller" THEN "idle" ELSE "done"
\* ... and when TransactionNotFound escapes it.
Crash(x) == IF x = "caller" THEN "raised" ELSE "crashed"

\* line 249: whether the constructor joins the watcher
Blocks(t, confs, blocking) == blocking /\ (confs > 0 \/ included[t].blockNumber # 0)

\* TransactionReceipt.__init__, lines 180-250
Construct(t, confs, blocking) ==
    /\ th[t].pc = "off"
    /\ rec' = [rec EXCEPT ![t] = NewRecord]
    /\ th' = [th EXCEPT
            ![t] = Enter(@, t, confs),
            !["caller"].tx = t,
            !["caller"].pc = IF Blocks(t, confs, blocking) THEN "join" ELSE "idle"]

\* A record is made for the original transaction, with any arguments;
\* get_transaction (line 221) raises for an unknown transaction.
Start(confs, blocking) ==
    /\ th["caller"].pc = "off"
    /\ Known(Original)
    /\ Construct(Original, confs, blocking)
    /\ UNCHANGED <<chain, history, calls, aside>>

\* confirm_thread.join(), line 250
Join ==
    /\ th["caller"].pc = "join"
    /\ th[Tx("caller")].pc \in {"done", "crashed"}
    /\ th' = [th EXCEPT !["caller"].pc = "idle"]
    /\ UNCHANGED <<chain, rec, history, calls, aside>>

InHistory(t) == \E i \in 1..Len(history) : history[i] = t

\* state.TxHistory()._add_tx(receipt), done by the code that broadcast it.
AddTx ==
    /\ th[Original].pc # "off"
    /\ ~InHistory(Original)
    /\ history' = Append(history, Original)
    /\ UNCHANGED <<chain, rec, th, calls, aside>>

\* line 384
Replaceable(t) == rec[t].status <= -1

\* The node takes a transaction into its pool while its nonce is unused.
Accepts(t) == get_transaction_count = TxNonce[t]

\* replace(), lines 351-424: refused once the transaction has confirmed; the
\* replacement is broadcast with the same nonce and required_confs = 0, and
\* the account that sends it tracks its record.
Replace ==
    /\ th["caller"].pc = "idle"
    /\ calls < MaxCalls
    /\ calls' = calls + 1
    /\ Replaceable(Original)
    /\ Accepts(Replacement)
    /\ Construct(Replacement, 0, FALSE)
    /\ pooled' = [pooled EXCEPT ![Replacement] = TRUE]
    /\ history' = Append(history, Replacement)
    /\ UNCHANGED <<height, included, reorgs, aside>>

\* ------------------------------------------- _await_confirmation, lines 480-574

\* state.TxHistory().filter(sender=self.sender, nonce=self.nonce, key=lambda k: k != self)
Filter(t) ==
    SelectSeq(history, LAMBDA k : TxNonce[k] = TxNonce[t] /\ k # t)

\* lines 489-491: read the sender's transaction count
PollNonce(x) ==
    /\ th[x].pc = "nonce"
    /\ th' = [th EXCEPT ![x].pc = "receipt", ![x].sender_nonce = get_transaction_count]
    /\ UNCHANGED <<chain, rec, history, calls, aside>>

\* lines 493-500: look for the receipt
PollReceipt(x) ==
    /\ th[x].pc = "receipt"
    /\ LET r == get_transaction_receipt(Tx(x)) IN
        th' = [th EXCEPT ![x].receipt = r,
                         ![x].pc = IF HasReceipt(r) THEN "included" ELSE "check"]
    /\ UNCHANGED <<chain, rec, history, calls, aside>>

\* A watcher that read the transaction count anew when it decides.
NonceNow(x) == get_transaction_count

\* line 505: the count the drop decision compares with the nonce
NonceSeen(x) == th[x].sender_nonce

\* A drop decision that needs the count to pass the nonce by two.
DropDecisionLate(x) == th[x].sender_nonce > TxNonce[th[x].tx] + 1

\* A drop decision taken as soon as the count reaches the nonce.
DropDecisionEarly(x) == th[x].sender_nonce >= TxNonce[th[x].tx]

\* line 505
DropDecision(x) == NonceSeen(x) > TxNonce[Tx(x)]

\* lines 505-506, else lines 521 and 489: the count is read again only when
\* 15 seconds have passed since the last read
CheckNonce(x) ==
    /\ th[x].pc = "check"
    /\ IF DropDecision(x)
       THEN /\ rec' = [rec EXCEPT ![Tx(x)].status = Dropped]
            /\ th' = [th EXCEPT ![x].pc = "dropset"]
       ELSE /\ \E reread \in BOOLEAN :
                th' = [th EXCEPT ![x].pc = IF reread THEN "nonce" ELSE "receipt"]
            /\ UNCHANGED rec
    /\ UNCHANGED <<chain, history, calls, aside>>

\* lines 507-508
DropSet(x) ==
    /\ th[x].pc = "dropset"
    /\ rec' = [rec EXCEPT ![Tx(x)].confirmed = TRUE]
    /\ th' = [th EXCEPT ![x] = Ended(@, Finish(x))]
    /\ UNCHANGED <<chain, history, calls, aside>>

\* line 532
MoreConfs(remaining, required) == remaining > 0 /\ required > 1

\* A first inclusion that marked the other records Dropped at once.
MarkDropped(r) == [r EXCEPT !.silent = TRUE, !.status = Dropped]

\* lines 524-527: what first inclusion does to another record with the same
\* sender and nonce
Silence(r) == [r EXCEPT !.silent = TRUE]

\* lines 523-532: first inclusion
FirstInclusion(x) ==
    /\ th[x].pc = "included"
    /\ LET others == {Filter(Tx(x))[i] : i \in 1..Len(Filter(Tx(x)))} IN
        rec' = [t \in Txs |->
                 IF t = Tx(x) THEN [rec[t] EXCEPT !.block_number = th[x].receipt.blockNumber]
                 ELSE IF t \in others THEN Silence(rec[t])
                 ELSE rec[t]]
    /\ th' = [th EXCEPT ![x].remaining_confs = th[x].required_confs,
                ![x].sender_nonce = 0,
                ![x].pc = IF MoreConfs(th[x].required_confs, th[x].required_confs)
                          THEN "confrcpt" ELSE "setfields"]
    /\ UNCHANGED <<chain, history, calls, aside>>

\* lines 533-536: re-read the receipt
ConfReceipt(x) ==
    /\ th[x].pc = "confrcpt"
    /\ LET r == get_transaction_receipt(Tx(x)) IN
        IF HasReceipt(r)
        THEN /\ th' = [th EXCEPT ![x].receipt = r, ![x].pc = "confcount"]
             /\ rec' = [rec EXCEPT ![Tx(x)].block_number = r.blockNumber]
        ELSE /\ th' = [th EXCEPT ![x].pc = "lost"]
             /\ UNCHANGED rec
    /\ UNCHANGED <<chain, history, calls, aside>>

\* lines 541-543: the receipt is gone; get_transaction raises if the
\* transaction is gone too, else waiting restarts from scratch
Restart(l) == [Enter(l, l.tx, l.required_confs) EXCEPT !.lost = l.receipt.blockHash]

LostReceipt(x) ==
    /\ th[x].pc = "lost"
    /\ IF Known(Tx(x))
       THEN /\ rec' = [rec EXCEPT ![Tx(x)].block_number = 0]
            /\ th' = [th EXCEPT ![x] = Restart(@)]
       ELSE /\ th' = [th EXCEPT ![x] = Ended(@, Crash(x))]
            /\ UNCHANGED rec
    /\ UNCHANGED <<chain, history, calls, aside>>

\* lines 544-545
RemainingConfs(x) == th[x].required_confs - confirmations(Tx(x))

\* lines 544-555
ConfCount(x) ==
    /\ th[x].pc = "confcount"
    /\ th' = [th EXCEPT ![x].remaining_confs = RemainingConfs(x),
                ![x].pc = IF MoreConfs(RemainingConfs(x), th[x].required_confs)
                          THEN "confrcpt" ELSE "setfields"]
    /\ UNCHANGED <<chain, rec, history, calls, aside>>

\* An outcome that took the block number only.
BlockNumberOnly(r, receipt) == [r EXCEPT !.block_number = receipt.blockNumber]

\* _set_from_receipt, lines 606-609
ReceiptFields(r, receipt) ==
    [r EXCEPT !.block_number = receipt.blockNumber, !.txindex = receipt.blockHash,
              !.gas_used = receipt.blockHash, !.logs = receipt.blockHash]

SetFields(x) ==
    /\ th[x].pc = "setfields"
    /\ rec' = [rec EXCEPT ![Tx(x)] = ReceiptFields(@, th[x].receipt)]
    /\ th' = [th EXCEPT ![x].pc = "setstatus"]
    /\ UNCHANGED <<chain, history, calls, aside>>

\* a status that the receipt does not decide
StatusPending(receipt) == Pending

\* _set_from_receipt, line 610: Status(receipt["status"])
StatusOf(receipt) == receipt.status

\* _set_from_receipt, line 610
SetStatus(x) ==
    /\ th[x].pc = "setstatus"
    /\ rec' = [rec EXCEPT ![Tx(x)].status = StatusOf(th[x].receipt)]
    /\ th' = [th EXCEPT ![x].pc = "signal"]
    /\ UNCHANGED <<chain, history, calls, aside>>

\* lines 570-572: the next record to mark, or the end of the loop
NextMark(x, l, todo) ==
    IF todo = <<>> THEN Ended(l, Finish(x))
    ELSE [l EXCEPT !.pc = "markstatus", !.todo = todo, !.receipt = NoReceipt,
                   !.required_confs = 0, !.remaining_confs = 0]

\* lines 569-572: set the own event, then list the records to mark
Signal(x) ==
    /\ th[x].pc = "signal"
    /\ rec' = [rec EXCEPT ![Tx(x)].confirmed = TRUE]
    /\ th' = [th EXCEPT ![x] = NextMark(x, @, Filter(Tx(x)))]
    /\ UNCHANGED <<chain, history, calls, aside>>

\* line 573
MarkStatus(x) ==
    /\ th[x].pc = "markstatus"
    /\ rec' = [rec EXCEPT ![Head(th[x].todo)].status = Dropped]
    /\ th' = [th EXCEPT ![x].pc = "marksignal"]
    /\ UNCHANGED <<chain, history, calls, aside>>

\* line 574
MarkSignal(x) ==
    /\ th[x].pc = "marksignal"
    /\ rec' = [rec EXCEPT ![Head(th[x].todo)].confirmed = TRUE]
    /\ th' = [th EXCEPT ![x] = NextMark(x, @, Tail(th[x].todo))]
    /\ UNCHANGED <<chain, history, calls, aside>>

\* ------------------------------------------------------ wait, lines 426-451

\* lines 427-431: nothing to wait for
Satisfied(t, n) == n < 1 \/ confirmations(t) > n

WaitCall(t, n) ==
    /\ th["caller"].pc = "idle"
    /\ th[t].pc # "off"
    /\ calls < MaxCalls
    /\ calls' = calls + 1
    /\ th' = [th EXCEPT !["caller"].tx = t,
                !["caller"].required_confs = IF Satisfied(t, n) THEN 0 ELSE n,
                !["caller"].pc = IF Satisfied(t, n) THEN "idle" ELSE "w_count"]
    /\ UNCHANGED <<chain, rec, history, aside>>

\* lines 433-438: sleep until the sender's transaction count passes the nonce
WaitCount ==
    /\ th["caller"].pc = "w_count"
    /\ get_transaction_count > TxNonce[Tx("caller")]
    /\ th' = [th EXCEPT !["caller"].pc = "w_gettx"]
    /\ UNCHANGED <<chain, rec, history, calls, aside>>

\* lines 440-451
WaitGetTx ==
    /\ th["caller"].pc = "w_gettx"
    /\ IF Known(Tx("caller"))
       THEN /\ th' = [th EXCEPT !["caller"] = Enter(@, @.tx, @.required_confs)]
            /\ UNCHANGED rec
       ELSE /\ rec' = [rec EXCEPT ![Tx("caller")].status = Dropped]
            /\ th' = [th EXCEPT !["caller"].pc = "w_dropset"]
    /\ UNCHANGED <<chain, history, calls, aside>>

\* lines 447-448
WaitDropSet ==
    /\ th["caller"].pc = "w_dropset"
    /\ rec' = [rec EXCEPT ![Tx("caller")].confirmed = TRUE]
    /\ th' = [th EXCEPT !["caller"] = Ended(@, "idle")]
    /\ UNCHANGED <<chain, history, calls, aside>>

Init ==
    /\ height = 0
    /\ included = [t \in Txs |-> NoReceipt]
    /\ pooled = [t \in Txs |-> t = Original]
    /\ reorgs = 0
    /\ rec = [t \in Txs |-> NewRecord]
    /\ history = <<>>
    /\ th = [x \in Threads |-> Off]
    /\ calls = 0
    /\ tx = 0 /\ obj = 0 /\ rd = 0 /\ inp = 0 /\ out = 0

Next ==
    \/ \E t \in Txs, evict \in BOOLEAN : Mine(t, evict)
    \/ MineEmpty
    \/ \E t \in Txs, back \in BOOLEAN : ReorgOut(t, back)
    \/ \E t \in Txs, b \in 1..MaxHeight : ReorgMove(t, b)
    \/ \E confs \in 0..MaxConfs, blocking \in BOOLEAN : Start(confs, blocking)
    \/ Join
    \/ AddTx
    \/ Replace
    \/ \E x \in Threads : PollNonce(x)
    \/ \E x \in Threads : PollReceipt(x)
    \/ \E x \in Threads : CheckNonce(x)
    \/ \E x \in Threads : DropSet(x)
    \/ \E x \in Threads : FirstInclusion(x)
    \/ \E x \in Threads : ConfReceipt(x)
    \/ \E x \in Threads : LostReceipt(x)
    \/ \E x \in Threads : ConfCount(x)
    \/ \E x \in Threads : SetFields(x)
    \/ \E x \in Threads : SetStatus(x)
    \/ \E x \in Threads : Signal(x)
    \/ \E x \in Threads : MarkStatus(x)
    \/ \E x \in Threads : MarkSignal(x)
    \/ \E t \in Txs, n \in 0..MaxConfs : WaitCall(t, n)
    \/ WaitCount
    \/ WaitGetTx
    \/ WaitDropSet

Spec == Init /\ [][Next]_vars

\* ---------------------------------------------------------------------------
\* The tracker under fair scheduling on a chain that is never reorganised,
\* with the coverage evaluation of lines 557-564 switched on.
\* ---------------------------------------------------------------------------

\* lines 557-564, coverage evaluation active: the watcher reads self.trace
\* between _set_from_receipt and _confirmed.set(); when the read raises (no
\* debug_traceTransaction, an error payload, a timeout, a failed expansion)
\* the exception ends _await_confirmation there.
CoverageRaise(x) ==
    /\ th[x].pc = "signal"
    /\ th' = [th EXCEPT ![x] = Ended(@, Crash(x))]
    /\ UNCHANGED <<chain, rec, history, calls, aside>>

\* A block with transaction t is mined while the chain can still grow by the
\* confirmations a watcher may ask for.
MineEarly(t, evict) == height + MaxConfs <= MaxHeight /\ Mine(t, evict)

\* one step of thread x in _await_confirmation or wait(); the chain of this
\* specification has no reorg, so a receipt that was seen is never lost
ThreadStep(x) ==
    \/ PollNonce(x) \/ PollReceipt(x) \/ CheckNonce(x) \/ DropSet(x)
    \/ FirstInclusion(x) \/ ConfReceipt(x) \/ ConfCount(x)
    \/ SetFields(x) \/ SetStatus(x) \/ Signal(x) \/ MarkStatus(x) \/ MarkSignal(x)
    \/ (x = "caller" /\ (Join \/ WaitCount \/ WaitGetTx \/ WaitDropSet))

NextLive ==
    \/ \E t \in Txs, evict \in BOOLEAN : MineEarly(t, evict)
    \/ MineEmpty
    \/ \E confs \in 0..MaxConfs, blocking \in BOOLEAN : Start(confs, blocking)
    \/ AddTx
    \/ Replace
    \/ \E t \in Txs, n \in 0..MaxConfs : WaitCall(t, n)
    \/ \E x \in Threads : ThreadStep(x)
    \/ \E x \in Threads : CoverageRaise(x)

\* Every thread that can take a step takes one in the end (the threads are
\* scheduled by the operating system, and their loops sleep one second at
\* most), and the chain keeps growing.
Fairness ==
    /\ \A x \in Threads : WF_vars(ThreadStep(x))
    /\ WF_vars(MineEmpty)

SpecLive == Init /\ [][NextLive]_vars /\ Fairness


\* ------------------------------------------------------------------ claims

Resolved(t) == rec[t].status \in {Confirmed, Reverted}

Populated(t) ==
    rec[t].txindex # 0 /\ rec[t].gas_used # 0 /\ rec[t].logs # 0

\* The other tracked records with the sender and nonce of t.
Siblings(t) == {Filter(t)[i] : i \in 1..Len(Filter(t))}

\* Thread x takes a step that leaves position p.
Leaves(x, p) == th[x].pc = p /\ th'[x] # th[x]

\* C1: when a watcher resolves its transaction, every other tracked record
\* with the same sender and nonce is already Dropped when the watcher sets its
\* own completion signal, and is Dropped when its signal is set.
C1_DroppedBeforeSignal ==
    [][\A x \in Threads :
        /\ Leaves(x, "signal") =>
              \A u \in Siblings(Tx(x)) : rec[u].status = Dropped
        /\ Leaves(x, "marksignal") => rec[Head(th[x].todo)].status = Dropped]_vars

\* C2: among the tracked records of one sender and nonce at most one is
\* Confirmed or Reverted.
C2_OneOutcomePerNonce ==
    \A t \in Txs : \A u \in Siblings(t) :
        InHistory(t) => ~(Resolved(t) /\ Resolved(u))

C4_NonceDrop ==
    [][\A x \in Threads :
        /\ (Leaves(x, "check") /\ th[x].sender_nonce > TxNonce[Tx(x)]) =>
              /\ ~HasReceipt(th[x].receipt)
              /\ rec'[Tx(x)].status = Dropped
              /\ th'[x].pc = "dropset"
        /\ Leaves(x, "dropset") =>
              /\ rec'[Tx(x)].confirmed
              /\ th'[x].pc \in {"done", "idle"}]_vars

\* C4 witness: a watcher has ended without an outcome, its record Dropped and
\* signalled, before the watcher of the mined transaction has marked anything.
C4_Witness ==
    \E t \in Txs :
        /\ th[t].pc = "done"
        /\ rec[t].status = Dropped /\ rec[t].confirmed
        /\ ~Populated(t)
        /\ \A u \in Txs \ {t} : th[u].pc \in {"nonce", "receipt", "check", "included"}

\* C5: without a reorg, a watcher never marks its own transaction Dropped by
\* the nonce check while that transaction is the one mined at its nonce.
C5_NoDropOfMinedTx ==
    [][\A x \in Threads :
        (reorgs = 0 /\ Leaves(x, "check") /\ th'[x].pc = "dropset") =>
            ~HasReceipt(included[Tx(x)])]_vars

\* C5 witness: the chain never having reorganised, a watcher that read a
\* transaction count raised by its own transaction has found the receipt.
C5_Witness ==
    \E x \in Threads :
        /\ th[x].pc = "included"
        /\ reorgs = 0
        /\ th[x].sender_nonce > TxNonce[Tx(x)]
        /\ HasReceipt(th[x].receipt)
        /\ rec[Tx(x)].status = Pending

C7_AllOrNothing ==
    \A t \in Txs :
        \/ rec[t].block_number = 0 /\ rec[t].txindex = 0 /\ rec[t].gas_used = 0
              /\ rec[t].logs = 0 /\ ~Resolved(t)
        \/ rec[t].block_number # 0 /\ Populated(t) /\ Resolved(t)

\* C7, amended: the status is written last, so a Confirmed or Reverted record
\* has its transaction index, gas used and logs; the block number is written
\* and cleared on its own.
C7_StatusWrittenLast ==
    \A t \in Txs : Resolved(t) => Populated(t)

\* C7 witness: a record with its outcome whose block number a restarted wait
\* has cleared.
C7_Witness ==
    \E t \in Txs : Resolved(t) /\ Populated(t) /\ rec[t].block_number = 0

\* C8: a blocking constructor returns only once the completion signal is set
\* and the status is no longer Pending; a constructor that does not block
\* returns at once.
C8_BlockingReturn ==
    [][/\ (th["caller"].pc = "join" /\ th'["caller"].pc = "idle") =>
              /\ rec'[Tx("caller")].confirmed
              /\ rec'[Tx("caller")].status # Pending
       /\ \A t \in Txs :
              (th[t].pc = "off" /\ th'[t].pc # "off") =>
                  th'["caller"].pc \in {"join", "idle"}]_vars

\* C9: a watcher that requires more than one confirmation writes the outcome
\* only after a count of height - inclusion block + 1, taken from the receipt
\* it read last, has reached the required number.
C9_ConfirmationsReached ==
    [][\A x \in Threads :
        (th[x].pc # "setfields" /\ th'[x].pc = "setfields"
            /\ th[x].required_confs > 1) =>
                /\ th[x].pc = "confcount"
                /\ height - th[x].receipt.blockNumber + 1 >= th[x].required_confs]_vars

\* C10: a watcher that loses the receipt while it waits for confirmations
\* clears the block number and starts again from the first poll, and when it
\* completes the record's block number is that of the receipt it read after
\* the restart, not that of the orphaned block.
C10_RestartAfterReorg ==
    [][\A x \in Threads :
        /\ (Leaves(x, "lost") /\ Known(Tx(x))) =>
              /\ rec'[Tx(x)].block_number = 0
              /\ th'[x].pc = "nonce"
              /\ th'[x].receipt = NoReceipt
              /\ th'[x].required_confs = th[x].required_confs
        /\ (Leaves(x, "signal") /\ th[x].lost # 0) =>
              /\ th[x].receipt.blockHash # th[x].lost
              /\ rec[Tx(x)].block_number = th[x].receipt.blockNumber]_vars

\* C11: when the node finds neither the receipt nor the transaction, waiting
\* (the watcher's reorg path, and wait()) ends with the record Dropped, and no
\* exception escapes the waiting logic.
C11_LostResolvesDropped ==
    [][\A x \in Threads :
        /\ th'[x].pc \notin {"crashed", "raised"}
        /\ (th[x].pc \in {"lost", "w_gettx"} /\ th'[x] # th[x] /\ ~Known(Tx(x))) =>
              rec'[Tx(x)].status = Dropped]_vars

\* C12: wait(N) called on a record whose confirmation count is at least N, or
\* with N < 1, returns at once: it enters the waiting logic only when the
\* count is below N, and the call itself changes no record.
C12_WaitNoOpWhenSatisfied ==
    [][(calls' # calls /\ history' = history) =>
          /\ rec' = rec
          /\ th'["caller"].pc = "w_count" =>
                /\ th'["caller"].required_confs >= 1
                /\ confirmations(th'["caller"].tx) < th'["caller"].required_confs]_vars

\* ---------------------------------------------------------------------------
\* The transaction trace: values as the node sends them.
\*
\* A string of hex digits is kept as its digits and whether it carries the
\* "0x" prefix; a native integer is kept as its value.  A trace is a sequence
\* of steps with the fields op, depth, stack, gas, gasCost and pc.
\* ---------------------------------------------------------------------------

\* Width of a normalised stack word, in hex characters.
WordLen == 64

\* Width of an address, in hex characters (the [-40:] slices).
AddrLen == 40

Str(prefixed, digits) == [type |-> "str", prefixed |-> prefixed, digits |-> digits]

IntOf(n) == [type |-> "int", val |-> n]

\* isinstance(v, str)
IsStr(v) == v.type = "str"

Zeros(n) == [i \in 1..n |-> 0]

\* str.zfill(width): pads on the left, never truncates
zfill(digits, width) ==
    IF Len(digits) >= width THEN digits ELSE Zeros(width - Len(digits)) \o digits

\* HexBytes(s).hex().removeprefix("0x"): the digits of s as whole bytes
HexBytesHex(s) ==
    IF Len(s.digits) % 2 = 1 THEN <<0>> \o s.digits ELSE s.digits

RECURSIVE HexValue(_)
\* the number written by a sequence of hex digits (zeros alone write 0)
HexValue(digits) ==
    IF \A i \in DOMAIN digits : digits[i] = 0 THEN 0
    ELSE 16 * HexValue(SubSeq(digits, 1, Len(digits) - 1)) + digits[Len(digits)]

RECURSIVE Pow16(_)
Pow16(n) == IF n = 0 THEN 1 ELSE 16 * Pow16(n - 1)

\* int(s, 16)
int16(s) == HexValue(s.digits)

\* int.from_bytes(HexBytes(s), "big", signed=True): two's complement over the
\* bytes of s
from_bytes_signed(s) ==
    LET digits == HexBytesHex(s) IN
    IF digits # <<>> /\ digits[1] >= 8
    THEN HexValue(digits) - Pow16(Len(digits))
    ELSE HexValue(digits)

RECURSIVE fix_stack(_)
\* _get_trace: the stack words need fixing when the first stack word of some
\* step is "0x"-prefixed; steps with an empty stack and steps whose first
\* word has no prefix are passed over, a first word that is not a string ends
\* the search.
fix_stack(trace) ==
    IF trace = <<>> THEN FALSE
    ELSE LET step == Head(trace) IN
         IF step.stack = <<>> THEN fix_stack(Tail(trace))
         ELSE IF ~IsStr(step.stack[1]) THEN FALSE
         ELSE IF step.stack[1].prefixed THEN TRUE
         ELSE fix_stack(Tail(trace))

\* _get_trace: the numeric fields need fixing when the first step's gas is a
\* string
fix_gas(trace) == IsStr(trace[1].gas)

\* the stack word without its prefix, as many bytes as it has
FixWordUnpadded(s) == Str(FALSE, HexBytesHex(s))

\* _get_trace: one stack word as 32 bytes (64 characters) without the prefix
FixWord(s) == Str(FALSE, zfill(HexBytesHex(s), WordLen))

\* _get_trace: the numeric fields of one step as integers
FixGas(step) ==
    [step EXCEPT
        !.gas = IntOf(int16(step.gas)),
        !.gasCost = IF IsStr(step.gasCost)
                    THEN IntOf(from_bytes_signed(step.gasCost))
                    ELSE step.gasCost,
        !.pc = IF IsStr(step.pc) THEN IntOf(int16(step.pc)) ELSE step.pc]

\* _get_trace: the normalisation of a non-empty raw trace
Normalize(trace) ==
    LET stacks == fix_stack(trace)
        gases == fix_gas(trace)
        FixStep(step) ==
            LET a == IF stacks
                     THEN [step EXCEPT !.stack = [k \in DOMAIN step.stack |->
                                                     FixWord(step.stack[k])]]
                     ELSE step
            IN IF gases THEN FixGas(a) ELSE a
    IN [i \in DOMAIN trace |-> FixStep(trace[i])]


\* ---------------------------------------------------------------------------
\* The expansion of a trace (_expand_trace) for contracts without build
\* information and traces without RETURN or memory: the depth and gas
\* cost adjustments, the address each step runs at, the subcalls and the
\* internal transfers.
\* ---------------------------------------------------------------------------

\* Gas used by a plain transfer; a first step whose gas cost reaches it
\* marks a trace with shifted gas costs.
TransferGas == 21000

call_opcodes == {"CALL", "STATICCALL", "DELEGATECALL"}

\* s[-k] of a Python list
Back(s, k) == s[Len(s) - k + 1]

\* word[-40:], the address in a stack word
AddressOf(word) ==
    IF Len(word.digits) <= AddrLen THEN word.digits
    ELSE SubSeq(word.digits, Len(word.digits) - AddrLen + 1, Len(word.digits))

\* The pattern 0x0{38}(?:0[1-9]|1[0-8]) searched in "0x" and the 40
\* characters of an address: 38 zeros, then "0" and a digit 1 to 9, or "1"
\* and a digit 0 to 8.
precompile_contract(address) ==
    /\ Len(address) = AddrLen
    /\ \A i \in 1..(AddrLen - 2) : address[i] = 0
    /\ \/ address[AddrLen - 1] = 0 /\ address[AddrLen] \in 1..9
       \/ address[AddrLen - 1] = 1 /\ address[AddrLen] \in 0..8

_is_call_to_precompile(subcall) == precompile_contract(subcall.to)

\* _expand_trace, lines 857-872: a trace that starts at depth 1 (geth) has
\* its depths lowered by one; another trace (ganache) whose first gas cost is
\* at least 21000 has its gas costs moved one step back.
AdjustTrace(trace) ==
    IF trace[1].depth = 1
    THEN [i \in DOMAIN trace |-> [trace[i] EXCEPT !.depth = trace[i].depth - 1]]
    ELSE IF trace[1].gasCost.val >= TransferGas
    THEN [i \in DOMAIN trace |->
            [trace[i] EXCEPT !.gasCost = IF i < Len(trace) THEN trace[i + 1].gasCost
                                         ELSE IntOf(0)]]
    ELSE trace

\* _expand_trace, lines 857-872: the cost of the initial call
CallCost(trace, gas_used) ==
    IF trace[1].depth # 1 /\ trace[1].gasCost.val >= TransferGas
    THEN trace[1].gasCost.val
    ELSE gas_used - trace[1].gas.val + trace[Len(trace)].gas.val

\* The expansion before its first step: nothing found, the receiver running
\* at depth 0.
ExpandStart(trace, receiver) ==
    [trace |-> trace, subcalls |-> <<>>, internal_transfers |-> <<>>,
     new_contracts |-> <<>>, last_map |-> [d \in {0} |-> receiver],
     address |-> [i \in {} |-> <<>>], raised |-> "no"]

\* the element of a set of one element: an expression that is written once
\* and read many times is evaluated once this way
Once(S) == CHOOSE x \in S : TRUE

\* _expand_trace, line 887: the first step from k on that runs at depth d, 0
\* when there is none (next() raises StopIteration)
FirstAtDepth(trace, k, d) ==
    LET at == {i \in k..Len(trace) : trace[i].depth = d}
    IN  IF at = {} THEN 0 ELSE CHOOSE i \in at : \A m \in at : i <= m

\* _expand_trace, lines 907-926: the subcall of step j is recorded with the
\* address step j ran at; CALL and CALLCODE carry their value; a subcall
\* made from a precompile takes the place of the one before it.
RecordSubcall(st, j, address) ==
    LET step == st.trace[j]
        n == Len(st.subcalls)
    IN  IF j \notin DOMAIN st.address THEN [st EXCEPT !.raised = "KeyError"]
        ELSE LET from == st.address[j]
                 plain == [from |-> from, to |-> address, op |-> step.op]
                 entry == IF step.op \in {"CALL", "CALLCODE"}
                          THEN [from |-> from, to |-> address, op |-> step.op,
                                value |-> int16(Back(step.stack, 3))]
                          ELSE plain
             IN IF ~precompile_contract(from)
                THEN [st EXCEPT !.subcalls = Append(st.subcalls, entry)]
                ELSE IF n = 0
                THEN [st EXCEPT !.subcalls = Append(st.subcalls, entry),
                                !.raised = "IndexError"]
                ELSE [st EXCEPT !.subcalls = SubSeq(st.subcalls, 1, n - 1) \o
                                    <<[entry EXCEPT !.from = st.subcalls[n].from]>>]

\* _expand_trace, lines 885-893: step j is a CREATE or CREATE2 and step k runs
\* deeper.  The new contract is the top of the stack of the first step back
\* at the depth of step j, and a value (the top of the stack of step j) is
\* an internal transfer to it.
ExpandCreate(st, j, k) ==
    LET trace == st.trace
        step == trace[j]
        ret == FirstAtDepth(trace, k, step.depth)
    IN  IF ret = 0 THEN [st EXCEPT !.raised = "StopIteration"]
        ELSE IF trace[ret].stack = <<>> THEN [st EXCEPT !.raised = "IndexError"]
        ELSE IF step.stack = <<>>
        THEN [st EXCEPT !.new_contracts =
                            Append(st.new_contracts, AddressOf(Back(trace[ret].stack, 1))),
                        !.raised = "IndexError"]
        ELSE Once({
               IF value # 0 /\ j \notin DOMAIN st.address
               THEN [st EXCEPT !.new_contracts = Append(st.new_contracts, address),
                               !.raised = "KeyError"]
               ELSE RecordSubcall(
                      [st EXCEPT
                         !.new_contracts = Append(st.new_contracts, address),
                         !.internal_transfers =
                            IF value = 0 THEN st.internal_transfers
                            ELSE Append(st.internal_transfers,
                                        [from |-> st.address[j], to |-> address,
                                         value |-> value]),
                         !.last_map =
                            [d \in DOMAIN st.last_map \cup {trace[k].depth} |->
                                IF d = trace[k].depth THEN address ELSE st.last_map[d]]],
                      j, address) :
               address \in {AddressOf(Back(trace[ret].stack, 1))},
               value \in {int16(Back(step.stack, 1))} })

\* _expand_trace, lines 879-926: step k of the loop up to the subcall it
\* records.  The step before the first one is the last one (trace[-1]).
ExpandCall(st, k) ==
    LET trace == st.trace
        j == IF k = 1 THEN Len(trace) ELSE k - 1
        step == trace[j]
        is_depth_increase == trace[k].depth > step.depth
        is_subcall == step.op \in call_opcodes
        needed == IF step.op \in {"CALL", "CALLCODE"} THEN 5 ELSE 4
    IN  IF ~(is_depth_increase \/ is_subcall) THEN st
        ELSE IF step.op \in {"CREATE", "CREATE2"} THEN ExpandCreate(st, j, k)
        ELSE IF Len(step.stack) < needed THEN [st EXCEPT !.raised = "IndexError"]
        ELSE LET address == AddressOf(Back(step.stack, 2))
                 last_map == IF is_depth_increase
                             THEN [d \in DOMAIN st.last_map \cup {trace[k].depth} |->
                                     IF d = trace[k].depth THEN address ELSE st.last_map[d]]
                             ELSE st.last_map
             IN RecordSubcall([st EXCEPT !.last_map = last_map], j, address)

\* _expand_trace, lines 929-936: a step with the address of its call context
\* and the jump depth of a context without build information
Annotated(step, address) ==
    [f \in DOMAIN step \cup {"address", "jumpDepth"} |->
        IF f = "address" THEN address ELSE IF f = "jumpDepth" THEN 0 ELSE step[f]]

\* _expand_trace, lines 928-942: step k takes the address of its depth, and a
\* CALL with a value is an internal transfer.
ExpandStep(st, k) ==
    Once({
      IF a.raised # "no" THEN a
      ELSE IF a.trace[k].depth \notin DOMAIN a.last_map THEN [a EXCEPT !.raised = "KeyError"]
      ELSE LET step == a.trace[k]
               last == a.last_map[step.depth]
               address == [i \in DOMAIN a.address \cup {k} |->
                              IF i = k THEN last ELSE a.address[i]]
           IN IF step.op = "CALL" /\ Len(step.stack) < 3
              THEN [a EXCEPT !.address = address, !.trace[k] = Annotated(step, last),
                             !.raised = "IndexError"]
              ELSE [a EXCEPT !.address = address, !.trace[k] = Annotated(step, last),
                             !.internal_transfers =
                                IF step.op = "CALL" /\ int16(Back(step.stack, 3)) # 0
                                THEN Append(a.internal_transfers,
                                            [from |-> last,
                                             to |-> AddressOf(Back(step.stack, 2)),
                                             value |-> int16(Back(step.stack, 3))])
                                ELSE a.internal_transfers] :
      a \in {ExpandCall(st, k)} })

RECURSIVE ExpandLoop(_, _)
\* the loop of _expand_trace from step k on; an exception leaves what was
\* found so far
ExpandLoop(st, k) ==
    Once({ IF k > Len(s.trace) \/ s.raised # "no" THEN s
           ELSE ExpandLoop(ExpandStep(s, k), k + 1) : s \in {st} })

\* _expand_trace on a raw trace: the lists start empty; an empty trace is
\* left as it is.
Expand(raw, receiver) ==
    IF raw = <<>> THEN ExpandStart(raw, receiver)
    ELSE ExpandLoop(ExpandStart(AdjustTrace(raw), receiver), 1)

\* the subcalls found, all of them
Unfiltered(subcalls) == subcalls

\* The subcalls property: the subcalls found, without the calls to a
\* precompile.
Filtered(subcalls) == SelectSeq(subcalls, LAMBDA e : ~_is_call_to_precompile(e))

\* Gas refunded for a slot set to zero, and for a SELFDESTRUCT
StoreRefund == 15000

DestructRefund == 24000

\* the comparison of two steps by their depth alone
_depth_compare(a, b) == a.depth = b.depth

_step_compare(a, b) == a.depth = b.depth /\ a.jumpDepth = b.jumpDepth

\* the step of the loop with the refunds taken from the gas of the starting
\* context whatever context the step runs in
GasStepRefundAll(trace, start, i, acc) ==
    LET same == _step_compare(trace[i], trace[start])
        leaves == acc.is_internal /\ ~same
        is_internal == IF leaves THEN FALSE
                       ELSE IF ~acc.is_internal /\ same THEN TRUE
                       ELSE acc.is_internal
        handed == IF leaves /\ trace[i].depth > trace[start].depth
                  THEN trace[IF i = 1 THEN Len(trace) ELSE i - 1].gasCost.val ELSE 0
        refund == (IF trace[i].op = "SSTORE" /\ int16(Back(trace[i].stack, 2)) = 0
                   THEN StoreRefund ELSE 0)
                  + (IF trace[i].op = "SELFDESTRUCT" THEN DestructRefund ELSE 0)
    IN  [is_internal |-> is_internal,
         total_gas |-> acc.total_gas + trace[i].gasCost.val - refund,
         internal_gas |-> acc.internal_gas - handed - refund
                          + (IF is_internal THEN trace[i].gasCost.val ELSE 0)]

\* the step of the loop with the refund of a store decided by the top of the
\* stack, the slot, in place of the value under it
GasStepSlot(trace, start, i, acc) ==
    LET same == _step_compare(trace[i], trace[start])
        leaves == acc.is_internal /\ ~same
        is_internal == IF leaves THEN FALSE
                       ELSE IF ~acc.is_internal /\ same THEN TRUE
                       ELSE acc.is_internal
        handed == IF leaves /\ trace[i].depth > trace[start].depth
                  THEN trace[IF i = 1 THEN Len(trace) ELSE i - 1].gasCost.val ELSE 0
        refund == (IF trace[i].op = "SSTORE" /\ int16(Back(trace[i].stack, 1)) = 0
                   THEN StoreRefund ELSE 0)
                  + (IF trace[i].op = "SELFDESTRUCT" THEN DestructRefund ELSE 0)
    IN  [is_internal |-> is_internal,
         total_gas |-> acc.total_gas + trace[i].gasCost.val - refund,
         internal_gas |-> acc.internal_gas - handed
                          + (IF is_internal THEN trace[i].gasCost.val - refund ELSE 0)]

\* _get_trace_gas, lines 1101-1125: step i of the loop over start..stop-1, on
\* the sums so far
GasStep(trace, start, i, acc) ==
    LET same == _step_compare(trace[i], trace[start])
        leaves == acc.is_internal /\ ~same
        is_internal == IF leaves THEN FALSE
                       ELSE IF ~acc.is_internal /\ same THEN TRUE
                       ELSE acc.is_internal
        handed == IF leaves /\ trace[i].depth > trace[start].depth
                  THEN trace[IF i = 1 THEN Len(trace) ELSE i - 1].gasCost.val ELSE 0
        refund == (IF trace[i].op = "SSTORE" /\ int16(Back(trace[i].stack, 2)) = 0
                   THEN StoreRefund ELSE 0)
                  + (IF trace[i].op = "SELFDESTRUCT" THEN DestructRefund ELSE 0)
    IN  [is_internal |-> is_internal,
         total_gas |-> acc.total_gas + trace[i].gasCost.val - refund,
         internal_gas |-> acc.internal_gas - handed
                          + (IF is_internal THEN trace[i].gasCost.val - refund ELSE 0)]

RECURSIVE GasLoop(_, _, _, _, _)
GasLoop(trace, start, stop, i, acc) ==
    IF i >= stop THEN acc
    ELSE GasLoop(trace, start, stop, i + 1, GasStep(trace, start, i, acc))

\* _get_trace_gas(start, stop) on an expanded trace, steps counted from 1 and
\* stop exclusive: the gas of the range within the starting context, and
\* in total
_get_trace_gas(trace, start, stop) ==
    LET acc == GasLoop(trace, start, stop, start,
                       [is_internal |-> TRUE, total_gas |-> 0, internal_gas |-> 0])
        back == IF start > 1 /\ trace[start].depth > trace[start - 1].depth
                THEN trace[start - 1].gasCost.val ELSE 0
    IN  [internal_gas |-> acc.internal_gas + back, total_gas |-> acc.total_gas + back]


\* ---------------------------------------------------------------------------
\* Access to the trace-dependent properties of one record: the trace_property
\* wrapper, the properties, _get_trace and _expand_trace, a step at a time.
\* The record is not a deployment and its contracts have no build information.
\* ---------------------------------------------------------------------------

\* Python's None, and the values that are not None: a list, a bool, a string
None == [none |-> TRUE]

List(l) == [list |-> l]

Bool(b) == [bool |-> b]

Text(s) == [str |-> s]

\* Addresses: 40 hex digits
ReceiverAddr == <<10>> \o Zeros(AddrLen - 2) \o <<11>>

ContractAddr == <<12>> \o Zeros(AddrLen - 3) \o <<0, 1>>

\* the address whose last two hex digits are a and b, all others 0
LowAddr(a, b) == Zeros(AddrLen - 2) \o <<a, b>>

\* A stack word and a step as geth sends them: 64 digits without prefix,
\* numbers as integers.
GethWord(digits) == Str(FALSE, zfill(digits, WordLen))

GethStep(op, depth, stack, gasCost) ==
    [op |-> op, depth |-> depth, stack |-> stack,
     gas |-> IntOf(0), gasCost |-> IntOf(gasCost), pc |-> IntOf(0)]

\* The stack of a CALL: ..., input length, input offset, value, address, gas
CallStack(to, value) ==
    <<GethWord(<<0>>), GethWord(<<0>>), GethWord(<<value>>), GethWord(to), GethWord(<<0>>)>>

\* The traces the node of the access model may hold: none, a trace that only
\* stops, a store, a call that moves value into another contract, and a
\* store followed by a revert without message.
NodeTraces ==
    { <<>>,
      <<GethStep("STOP", 0, <<>>, 0)>>,
      <<GethStep("SSTORE", 0, <<GethWord(<<1>>), GethWord(<<2>>)>>, 5),
        GethStep("STOP", 0, <<>>, 0)>>,
      <<GethStep("CALL", 0, CallStack(ContractAddr, 1), 7),
        GethStep("STOP", 1, <<>>, 0),
        GethStep("STOP", 0, <<>>, 0)>>,
      <<GethStep("SSTORE", 0, <<GethWord(<<1>>), GethWord(<<2>>)>>, 5),
        GethStep("REVERT", 0, <<GethWord(<<0>>), GethWord(<<0>>)>>, 0)>> }

\* The properties behind the trace_property wrapper
Properties ==
    {"events", "trace", "subcalls", "internal_transfers", "new_contracts",
     "modified_state", "return_value", "revert_msg", "dev_revert_msg"}

\* The events decoded from the logs of the receipt, or from the raw trace
Decoded(from) == [events |-> from]

\* The answers of the node to debug_traceTransaction: the trace, an error
\* payload, or none within the timeout
Answers == {"result", "error", "timeout"}

\* __init__, lines 191-199: nothing is known of the trace.  requests and
\* expansions count the raw-trace requests and the expansions made; failed
\* tells that a retrieval of the trace has ended with an error (the three are
\* history, not fields).
NewObject ==
    [_trace_exc |-> None, _events |-> None, _raw_trace |-> None, _trace |-> None,
     _subcalls |-> None, _internal_transfers |-> None, _new_contracts |-> None,
     _modified_state |-> None, _revert_msg |-> None, _dev_revert_msg |-> None,
     _return_value |-> None, requests |-> 0, expansions |-> 0, failed |-> FALSE]

\* A reader outside any access; raised and value are what its last access
\* gave, answer what the node answered to it during that access
Idle == [pc |-> "idle", prop |-> "", via |-> "", answer |-> "", raised |-> "no",
         value |-> None]

\* A reader whose access to property p has ended with a value / with an
\* exception
Returns(p, v) == [Idle EXCEPT !.prop = p, !.value = v]

Raises(p, exc) == [Idle EXCEPT !.prop = p, !.raised = exc]

Return(r, p, v) == rd' = [rd EXCEPT ![r] = Returns(p, v)]

Raise(r, p, exc) == rd' = [rd EXCEPT ![r] = Raises(p, exc)]

\* The access of reader r to property p goes on at pc, inside the function
\* called from via
Goto(r, p, pc, via) ==
    rd' = [rd EXCEPT ![r] = [Idle EXCEPT !.prop = p, !.pc = pc, !.via = via]]

\* trace_property, lines 73-80: an RPCRequestError leaves the wrapper as it is
\* when the node supports traces, and as the error that names the missing
\* endpoint when it does not
Wrapped(exc) ==
    IF exc \in {"payload", "timeout", "unsupported"} /\ ~tx.supports THEN "requires" ELSE exc


\* events, lines 259-273: decoded from the logs of a confirmed transaction,
\* and from the raw trace of a reverted one, once
events(r) ==
    IF obj._events # None THEN Return(r, "events", obj._events)
    ELSE IF tx.status # Reverted THEN Return(r, "events", Decoded("logs"))
    ELSE Goto(r, "events", "get", "prop")

\* trace, lines 333-337
trace(r) ==
    IF obj._trace = None THEN Goto(r, "trace", "expand", "")
    ELSE Return(r, "trace", obj._trace)

\* subcalls, lines 326-331
subcalls(r) ==
    IF obj._subcalls = None THEN Goto(r, "subcalls", "expand", "")
    ELSE Return(r, "subcalls", List(Filtered(obj._subcalls.list)))

\* internal_transfers, lines 275-281
internal_transfers(r) ==
    IF tx.status = Reverted THEN Return(r, "internal_transfers", List(<<>>))
    ELSE IF obj._internal_transfers = None THEN Goto(r, "internal_transfers", "expand", "")
    ELSE Return(r, "internal_transfers", obj._internal_transfers)

\* new_contracts, lines 291-297
new_contracts(r) ==
    IF tx.status = Reverted THEN Return(r, "new_contracts", List(<<>>))
    ELSE IF obj._new_contracts = None THEN Goto(r, "new_contracts", "expand", "")
    ELSE Return(r, "new_contracts", obj._new_contracts)

\* modified_state, lines 283-289, but for the write of the reverted case
modified_state(r) ==
    IF tx.status = Reverted THEN Return(r, "modified_state", Bool(FALSE))
    ELSE IF obj._modified_state = None THEN Goto(r, "modified_state", "get", "prop")
    ELSE Return(r, "modified_state", obj._modified_state)

\* return_value, lines 299-305
return_value(r) ==
    IF tx.status = Reverted THEN Return(r, "return_value", None)
    ELSE IF obj._return_value = None THEN Goto(r, "return_value", "get", "prop")
    ELSE Return(r, "return_value", obj._return_value)

\* revert_msg, lines 307-315
revert_msg(r) ==
    IF tx.status # Reverted THEN Return(r, "revert_msg", None)
    ELSE IF obj._revert_msg = None THEN Goto(r, "revert_msg", "get", "prop")
    ELSE Return(r, "revert_msg", obj._revert_msg)

\* dev_revert_msg, lines 317-324: an empty message is given as None
dev_revert_msg(r) ==
    IF tx.status # Reverted THEN Return(r, "dev_revert_msg", None)
    ELSE IF obj._dev_revert_msg = None THEN Goto(r, "dev_revert_msg", "get", "prop")
    ELSE Return(r, "dev_revert_msg",
                IF obj._dev_revert_msg = Text("") THEN None ELSE obj._dev_revert_msg)

\* The body of property p up to its first call or its return
Body(r, p) ==
    CASE p = "events" -> events(r)
      [] p = "trace" -> trace(r)
      [] p = "subcalls" -> subcalls(r)
      [] p = "internal_transfers" -> internal_transfers(r)
      [] p = "new_contracts" -> new_contracts(r)
      [] p = "modified_state" -> modified_state(r)
      [] p = "return_value" -> return_value(r)
      [] p = "revert_msg" -> revert_msg(r)
      [] p = "dev_revert_msg" -> dev_revert_msg(r)

\* The wrapper without its check of the recorded error: the property runs
\* again.
AccessRetry(r, p) ==
    /\ rd[r].pc = "idle"
    /\ IF tx.status < 0 THEN Return(r, p, None) /\ UNCHANGED obj
       ELSE /\ Body(r, p)
            /\ obj' = IF p = "modified_state" /\ tx.status = Reverted
                      THEN [obj EXCEPT !._modified_state = Bool(FALSE)]
                      ELSE IF p = "events" /\ obj._events = None /\ tx.status # Reverted
                      THEN [obj EXCEPT !._events = Decoded("logs")]
                      ELSE obj
    /\ UNCHANGED <<tracker, tx, inp, out>>

\* The wrapper without its check of the status: the property runs whatever
\* the status.
AccessAnyStatus(r, p) ==
    /\ rd[r].pc = "idle"
    /\ IF obj._trace_exc # None THEN Raise(r, p, obj._trace_exc.str) /\ UNCHANGED obj
       ELSE /\ Body(r, p)
            /\ obj' = IF p = "modified_state" /\ tx.status = Reverted
                      THEN [obj EXCEPT !._modified_state = Bool(FALSE)]
                      ELSE IF p = "events" /\ obj._events = None /\ tx.status # Reverted
                      THEN [obj EXCEPT !._events = Decoded("logs")]
                      ELSE obj
    /\ UNCHANGED <<tracker, tx, inp, out>>

\* trace_property, lines 64-72: reader r reads property p.  Nothing is given
\* while the status is below zero; a recorded error is raised again; else
\* the property runs.
Access(r, p) ==
    /\ rd[r].pc = "idle"
    /\ IF tx.status < 0 THEN Return(r, p, None) /\ UNCHANGED obj
       ELSE IF obj._trace_exc # None THEN Raise(r, p, obj._trace_exc.str) /\ UNCHANGED obj
       ELSE /\ Body(r, p)
            /\ obj' = IF p = "modified_state" /\ tx.status = Reverted
                      THEN [obj EXCEPT !._modified_state = Bool(FALSE)]
                      ELSE IF p = "events" /\ obj._events = None /\ tx.status # Reverted
                      THEN [obj EXCEPT !._events = Decoded("logs")]
                      ELSE obj
    /\ UNCHANGED <<tracker, tx, inp, out>>


\* _get_trace or _expand_trace returns into the function that called it: the
\* property goes on to its return, _expand_trace to its own check of _trace
Resumes(r) ==
    [rd[r] EXCEPT !.pc = IF rd[r].via = "expand" THEN "body" ELSE "ret", !.via = ""]

Resume(r) == rd' = [rd EXCEPT ![r] = Resumes(r)]

\* _expand_trace, lines 845-855 and the loop: nothing to do when the trace is
\* expanded already; else the trace and the three lists are set from the raw
\* trace.  An exception of the loop leaves what it had found.
ExpandObject(o) ==
    IF o._trace # None THEN o
    ELSE IF tx.deploy
    THEN [o EXCEPT !._trace = o._raw_trace, !._subcalls = List(<<>>),
                   !._internal_transfers = List(<<>>), !._new_contracts = List(<<>>),
                   !.expansions = o.expansions + 1]
    ELSE LET e == Expand(o._raw_trace.list, ReceiverAddr) IN
         [o EXCEPT !._trace = List(e.trace),
                   !._subcalls = List(e.subcalls),
                   !._internal_transfers = List(e.internal_transfers),
                   !._new_contracts = List(e.new_contracts),
                   !.expansions = o.expansions + 1]

\* the exception _expand_trace ends with on object o, "no" when it returns
ExpandRaised(o) ==
    IF o._trace # None \/ tx.deploy THEN "no"
    ELSE Expand(o._raw_trace.list, ReceiverAddr).raised

\* _confirmed_trace looking at the last step only
_confirmed_last_step(o, steps) ==
    [o EXCEPT !._modified_state = Bool(steps[Len(steps)].op = "SSTORE")]

\* _confirmed_trace, lines 726-738: the state was modified when some step is
\* an SSTORE; without build information no return value is decoded
_confirmed_trace(o, steps) ==
    [o EXCEPT !._modified_state = Bool(\E i \in DOMAIN steps : steps[i].op = "SSTORE")]

\* the steps of a trace that revert
RevertSteps(steps) == {i \in DOMAIN steps : steps[i].op \in {"REVERT", "INVALID"}}

\* Largest length a deployment may copy with CODECOPY without being taken
\* for a contract beyond the size limit of EIP-170
CodeSizeLimit == 24577

RECURSIVE Joined(_)
\* "".join(step["memory"]): the words of the memory in one string
Joined(memory) == IF memory = <<>> THEN <<>> ELSE Head(memory) \o Joined(Tail(memory))

\* _get_memory reading from the start of the memory whatever the offset
_get_memory_from_start(step, k) ==
    LET length == int16(Back(step.stack, k + 1))
        all == Joined(step.memory)
        data == SubSeq(all, 1, IF 2 * length < Len(all) THEN 2 * length ELSE Len(all))
    IN  data \o Zeros(2 * length - Len(data))

\* _get_memory(step, -k), lines 1440-1446: the bytes of the memory from the
\* offset in stack[-k] over the length in stack[-k - 1], as hex digits, with
\* zero bytes appended where the memory ends before
_get_memory(step, k) ==
    LET offset == int16(Back(step.stack, k))
        length == int16(Back(step.stack, k + 1))
        all == Joined(step.memory)
        upto == IF 2 * (offset + length) < Len(all) THEN 2 * (offset + length) ELSE Len(all)
        data == SubSeq(all, 2 * offset + 1, upto)
    IN  data \o Zeros(2 * length - Len(data))

\* The selector of Error(string), 0x08c379a0
ErrorSelector == <<0, 8, 12, 3, 7, 9, 10, 0>>

\* The characters of the messages of the model, by their code
Chr(code) == IF code = 97 THEN "a" ELSE IF code = 98 THEN "b" ELSE "?"

RECURSIVE Chars(_)
\* the string of a sequence of character codes
Chars(codes) == IF codes = <<>> THEN "" ELSE Chr(Head(codes)) \o Chars(Tail(codes))

\* the bytes written by an even number of hex digits
BytesOf(digits) ==
    [i \in 1..(Len(digits) \div 2) |-> 16 * digits[2 * i - 1] + digits[2 * i]]

\* The ABI decoding of one string: the first word is the offset of the
\* string, the word there its length, the bytes after it the string.  Data
\* too short for what it announces cannot be decoded.
abi_decode_string(digits) ==
    IF Len(digits) < WordLen THEN [failed |-> TRUE]
    ELSE LET at == 2 * HexValue(SubSeq(digits, 1, WordLen)) IN
         IF Len(digits) < at + WordLen THEN [failed |-> TRUE]
         ELSE LET length == HexValue(SubSeq(digits, at + 1, at + WordLen)) IN
              IF Len(digits) < at + WordLen + 2 * length THEN [failed |-> TRUE]
              ELSE [failed |-> FALSE,
                    string |-> Chars(BytesOf(SubSeq(digits, at + WordLen + 1,
                                                    at + WordLen + 2 * length)))]

\* decode_typed_error on a "0x"-prefixed hex string: the string of an
\* Error(string) payload; any other data is given raw
decode_typed_error(data) ==
    LET digits == data.digits
        decoded == abi_decode_string(SubSeq(digits, Len(ErrorSelector) + 1, Len(digits)))
    IN  IF Len(digits) >= Len(ErrorSelector)
           /\ SubSeq(digits, 1, Len(ErrorSelector)) = ErrorSelector
           /\ ~decoded.failed
        THEN Text(decoded.string)
        ELSE [raw |-> data]

\* The developer message of the build's revert map, of the program counter
\* map of a contract, and of a comment in the source
DevOfBuild == "dev: build"

DevOfMap == "dev: map"

DevOfSource == "dev: source"

\* What the registry and the build of the contract it finds have for a
\* reverting step: no contract; a contract whose map has not the program
\* counter; an entry with a developer message; an entry whose source line
\* carries a "dev:" comment, another comment, or no comment at all.  (No
\* entry is marked first_revert or optimizer_revert.)
RegistryAnswers == {"none", "unmapped", "dev", "source", "comment", "bare"}

\* _reverted_trace, lines 771-820: the developer message of a step looked up
\* through the registry, on the record a whose trace is expanded.  The
\* lookup returns from _reverted_trace, or ends in an exception that is
\* passed over (no contract: AttributeError; no entry: KeyError; no comment
\* marker in the line: ValueError).
DevLookup(a) ==
    LET Found(dev) ==
            [a EXCEPT !._dev_revert_msg = dev,
                      !._revert_msg = IF a._revert_msg # None THEN a._revert_msg
                                      ELSE IF dev # None THEN dev ELSE Text("")]
    IN  CASE tx.registry \in {"none", "unmapped", "bare"} -> [o |-> a, returned |-> FALSE]
          [] tx.registry = "dev" -> [o |-> Found(Text(DevOfMap)), returned |-> TRUE]
          [] tx.registry = "source" -> [o |-> Found(Text(DevOfSource)), returned |-> TRUE]
          [] tx.registry = "comment" -> [o |-> Found(a._dev_revert_msg), returned |-> TRUE]

\* the message after the loop, lines 827-828
LastResort(steps) ==
    LET revs == RevertSteps(steps) IN
    IF revs # {} /\ steps[CHOOSE i \in revs : \A k \in revs : k <= i].op = "INVALID"
    THEN "invalid opcode" ELSE ""

\* the first reverting step of the trace among revs
FirstRevertStep(revs) == CHOOSE i \in revs : \A j \in revs : i <= j

\* _reverted_trace, line 752: the loop takes the reverting steps from the
\* last one back (trace[::-1])
NextRevertStep(revs) == CHOOSE i \in revs : \A j \in revs : j <= i

RECURSIVE RevertScan(_, _, _)
\* _reverted_trace, lines 752-828: the loop over the reverting steps revs
\* still to look at, from the last one back, on record a.  The result is the
\* record, the exception the function ends with ("no" when it returns) and
\* the reverting steps the loop has looked at.
RevertScan(a, steps, revs) ==
    IF revs = {}
    THEN [o |-> [a EXCEPT !._revert_msg = Text(LastResort(steps))], raised |-> "no",
          seen |-> RevertSteps(steps)]
    ELSE LET k == NextRevertStep(revs)
             step == steps[k]
             seen == RevertSteps(steps) \ (revs \ {k})
             carries == step.op = "REVERT" /\ int16(Back(step.stack, 2)) # 0
             b == IF carries
                  THEN [a EXCEPT !._revert_msg =
                           decode_typed_error(Str(TRUE, _get_memory(step, 1)))]
                  ELSE a
         IN  IF ~carries /\ tx.deploy
             THEN [o |-> [a EXCEPT !._revert_msg =
                             Text(IF step.op = "INVALID" THEN "invalid opcode" ELSE ""),
                                   !._dev_revert_msg = Text("")],
                   raised |-> "no", seen |-> seen]
             ELSE IF step.pc.val \in tx.dev_reverts
             THEN [o |-> [b EXCEPT !._dev_revert_msg = Text(DevOfBuild),
                                   !._revert_msg = IF b._revert_msg = None
                                                   THEN Text(DevOfBuild) ELSE b._revert_msg],
                   raised |-> "no", seen |-> seen]
             ELSE IF ExpandRaised(b) # "no"
             THEN [o |-> ExpandObject(b), raised |-> ExpandRaised(b), seen |-> seen]
             ELSE LET c == ExpandObject(b)
                      t == DevLookup(c)
                  IN  IF t.returned THEN [o |-> t.o, raised |-> "no", seen |-> seen]
                      ELSE IF c._revert_msg # None
                      THEN [o |-> [c EXCEPT !._dev_revert_msg = Text("")], raised |-> "no",
                            seen |-> seen]
                      ELSE RevertScan(c, steps, revs \ {k})

\* _reverted_trace, lines 740-749, and the loop: a deployment that copied
\* more code than the limit has failed by its size; nothing is looked up when
\* the developer message is known.
RevertResult(o, steps) ==
    LET a == [o EXCEPT !._modified_state = Bool(FALSE)]
        copies == {i \in DOMAIN steps : steps[i].op = "CODECOPY"}
        first == CHOOSE i \in copies : \A j \in copies : i <= j
        b == IF tx.deploy /\ copies # {}
                /\ int16(Back(steps[first].stack, 3)) > CodeSizeLimit
             THEN [a EXCEPT !._revert_msg = Text("exceeds EIP-170 size limit"),
                            !._dev_revert_msg = Text("")]
             ELSE a
    IN  IF b._dev_revert_msg # None THEN [o |-> b, raised |-> "no", seen |-> {}]
        ELSE RevertScan(b, steps, RevertSteps(steps))

\* _reverted_trace, lines 740-828: the record it leaves
_reverted_trace(o, steps) == RevertResult(o, steps).o

\* _get_trace without its check of the raw trace (lines 652-653): the trace
\* is requested at every call.
GetTraceAgain(r) ==
    /\ rd[r].pc = "get"
    /\ IF tx.plain
       THEN /\ obj' = [obj EXCEPT !._raw_trace = List(<<>>),
                                  !._modified_state = Bool(FALSE),
                                  !._trace = List(<<>>)]
            /\ Resume(r)
       ELSE IF ~tx.supports
       THEN /\ obj' = [obj EXCEPT !._raw_trace = List(<<>>), !.failed = TRUE]
            /\ Raise(r, rd[r].prop, Wrapped("unsupported"))
       ELSE /\ obj' = [obj EXCEPT !._raw_trace = List(<<>>), !.requests = obj.requests + 1]
            /\ rd' = [rd EXCEPT ![r].pc = "request"]
    /\ UNCHANGED <<tracker, tx, inp, out>>

\* _get_trace without the branch of the plain transfer
GetTraceAlways(r) ==
    /\ rd[r].pc = "get"
    /\ IF obj._raw_trace # None THEN Resume(r) /\ UNCHANGED obj
       ELSE IF ~tx.supports
       THEN /\ obj' = [obj EXCEPT !._raw_trace = List(<<>>), !.failed = TRUE]
            /\ Raise(r, rd[r].prop, Wrapped("unsupported"))
       ELSE /\ obj' = [obj EXCEPT !._raw_trace = List(<<>>), !.requests = obj.requests + 1]
            /\ rd' = [rd EXCEPT ![r].pc = "request"]
    /\ UNCHANGED <<tracker, tx, inp, out>>

\* _get_trace, lines 652-668, up to the request: nothing to do when a raw
\* trace is there; else the raw trace is set to the empty list, a plain
\* transfer is settled at once, a node without the endpoint is an error, and
\* the request is made.
GetTrace(r) ==
    /\ rd[r].pc = "get"
    /\ IF obj._raw_trace # None THEN Resume(r) /\ UNCHANGED obj
       ELSE IF tx.plain
       THEN /\ obj' = [obj EXCEPT !._raw_trace = List(<<>>),
                                  !._modified_state = Bool(FALSE),
                                  !._trace = List(<<>>)]
            /\ Resume(r)
       ELSE IF ~tx.supports
       THEN /\ obj' = [obj EXCEPT !._raw_trace = List(<<>>), !.failed = TRUE]
            /\ Raise(r, rd[r].prop, Wrapped("unsupported"))
       ELSE /\ obj' = [obj EXCEPT !._raw_trace = List(<<>>), !.requests = obj.requests + 1]
            /\ rd' = [rd EXCEPT ![r].pc = "request"]
    /\ UNCHANGED <<tracker, tx, inp, out>>

\* _get_trace, lines 669-724: the record after the answer a of the node.  An
\* error payload is recorded; a result becomes the raw trace, is normalised
\* and read according to the status.
AnswerObject(a) ==
    CASE a = "timeout" -> [obj EXCEPT !.failed = TRUE]
      [] a = "error" -> [obj EXCEPT !._modified_state = None, !._trace_exc = Text("payload"),
                                    !.failed = TRUE]
      [] a = "result" ->
            IF tx.steps = <<>>
            THEN [obj EXCEPT !._raw_trace = List(<<>>), !._modified_state = Bool(FALSE)]
            ELSE LET steps == Normalize(tx.steps)
                     o == [obj EXCEPT !._raw_trace = List(steps)]
                 IN  IF tx.status = Confirmed THEN _confirmed_trace(o, steps)
                     ELSE _reverted_trace(o, steps)

\* _get_trace, lines 669-724: the exception the answer a ends _get_trace
\* with, "no" when it returns
AnswerRaised(a) ==
    CASE a = "timeout" -> "timeout"
      [] a = "error" -> "payload"
      [] a = "result" ->
            IF tx.steps # <<>> /\ tx.status # Confirmed
            THEN RevertResult([obj EXCEPT !._raw_trace = List(Normalize(tx.steps))],
                              Normalize(tx.steps)).raised
            ELSE "no"

\* _get_trace, lines 669-724, from the answer on
Answer(r, a) ==
    /\ rd[r].pc = "request"
    /\ obj' = AnswerObject(a)
    /\ rd' = [rd EXCEPT ![r] =
                [(IF AnswerRaised(a) # "no"
                  THEN Raises(rd[r].prop, Wrapped(AnswerRaised(a)))
                  ELSE Resumes(r)) EXCEPT !.answer = a]]
    /\ UNCHANGED <<tracker, tx, inp, out>>

\* _expand_trace, lines 843-844: the raw trace is fetched first when there is
\* none
ExpandEnter(r) ==
    /\ rd[r].pc = "expand"
    /\ rd' = [rd EXCEPT ![r].pc = IF obj._raw_trace = None THEN "get" ELSE "body",
                        ![r].via = IF obj._raw_trace = None THEN "expand" ELSE ""]
    /\ UNCHANGED <<tracker, tx, obj, inp, out>>

\* _expand_trace, lines 845 to the end
ExpandBody(r) ==
    /\ rd[r].pc = "body"
    /\ obj' = ExpandObject(obj)
    /\ IF ExpandRaised(obj) # "no"
       THEN Raise(r, rd[r].prop, ExpandRaised(obj))
       ELSE rd' = [rd EXCEPT ![r].pc = "ret"]
    /\ UNCHANGED <<tracker, tx, inp, out>>

\* What property p gives from the fields of the record: its return statement
FieldOf(p) ==
    CASE p = "events" -> Decoded("trace")
      [] p = "trace" -> obj._trace
      [] p = "subcalls" -> List(Filtered(obj._subcalls.list))
      [] p = "internal_transfers" -> obj._internal_transfers
      [] p = "new_contracts" -> obj._new_contracts
      [] p = "modified_state" -> obj._modified_state
      [] p = "return_value" -> obj._return_value
      [] p = "revert_msg" -> obj._revert_msg
      [] p = "dev_revert_msg" ->
            IF obj._dev_revert_msg = Text("") THEN None ELSE obj._dev_revert_msg

\* The property returns after its call; filter() over a list that is still
\* None is a TypeError, and the events of a reverted transaction are decoded
\* from the raw trace (lines 268-272).
PropertyReturn(r) ==
    /\ rd[r].pc = "ret"
    /\ IF rd[r].prop = "subcalls" /\ obj._subcalls = None
       THEN Raise(r, "subcalls", "TypeError")
       ELSE Return(r, rd[r].prop, FieldOf(rd[r].prop))
    /\ obj' = IF rd[r].prop = "events" THEN [obj EXCEPT !._events = Decoded("trace")]
              ELSE obj
    /\ UNCHANGED <<tracker, tx, inp, out>>

\* The transactions of the access model: any status; a plain transfer has no
\* steps; the node has the endpoint or not.  None is a deployment, and no
\* contract has build information.
AccessTxs ==
    {[status |-> s, plain |-> p, supports |-> n, steps |-> t,
      deploy |-> FALSE, dev_reverts |-> {}, registry |-> "none"] :
        s \in {Dropped, Pending, Reverted, Confirmed}, p \in BOOLEAN, n \in BOOLEAN,
        t \in NodeTraces}

InitAccess ==
    /\ height = 0
    /\ included = [t \in Txs |-> NoReceipt]
    /\ pooled = [t \in Txs |-> t = Original]
    /\ reorgs = 0
    /\ rec = [t \in Txs |-> NewRecord]
    /\ history = <<>>
    /\ th = [x \in Threads |-> Off]
    /\ calls = 0
    /\ tx \in {t \in AccessTxs : t.plain => t.steps = <<>>}
    /\ obj = NewObject
    /\ rd = [r \in {"caller"} |-> Idle]
    /\ inp = 0 /\ out = 0

NextAccess ==
    \/ \E r \in DOMAIN rd, p \in Properties : Access(r, p)
    \/ \E r \in DOMAIN rd : GetTrace(r)
    \/ \E r \in DOMAIN rd, a \in Answers : Answer(r, a)
    \/ \E r \in DOMAIN rd : ExpandEnter(r)
    \/ \E r \in DOMAIN rd : ExpandBody(r)
    \/ \E r \in DOMAIN rd : PropertyReturn(r)

SpecAccess == InitAccess /\ [][NextAccess]_vars

\* Two threads read the properties of one record: the caller, and the
\* watcher of the record, which reads the trace for the coverage report
\* (_await_confirmation, lines 558-564).  No lock is taken anywhere in the
\* access, so their steps interleave.
InitRace ==
    /\ height = 0
    /\ included = [t \in Txs |-> NoReceipt]
    /\ pooled = [t \in Txs |-> t = Original]
    /\ reorgs = 0
    /\ rec = [t \in Txs |-> NewRecord]
    /\ history = <<>>
    /\ th = [x \in Threads |-> Off]
    /\ calls = 0
    /\ tx \in {t \in AccessTxs : t.plain => t.steps = <<>>}
    /\ obj = NewObject
    /\ rd = [r \in {"caller", "watcher"} |-> Idle]
    /\ inp = 0 /\ out = 0

SpecRace == InitRace /\ [][NextAccess]_vars


\* ---------------------------------------------------------------------------
\* The trace functions on their own: a raw trace as some node sends it is
\* normalised (_get_trace), expanded (_expand_trace) and measured
\* (_get_trace_gas over the whole trace).
\* ---------------------------------------------------------------------------

\* Longest raw trace
MaxSteps == 3

RECURSIVE HexDigitsOf(_)
\* the hex digits of a number, without leading zeros
HexDigitsOf(n) == IF n < 16 THEN <<n>> ELSE Append(HexDigitsOf(n \div 16), n % 16)

RECURSIVE Stripped(_)
\* hex digits without their leading zeros
Stripped(digits) ==
    IF Len(digits) > 1 /\ digits[1] = 0 THEN Stripped(Tail(digits)) ELSE digits

\* The steps a raw trace is made of, before their encoding: opcode, stack
\* words (the last is the top) and gas cost.  A store of zero and of one, a
\* self-destruct, a call with value into a contract, static calls to the
\* addresses 0x01, 0x0a and 0x18 and 0x19, a step that costs as much as a
\* plain transfer, and a stop.
StepKinds ==
    { [op |-> "STOP", stack |-> <<>>, gasCost |-> 0],
      [op |-> "JUMPDEST", stack |-> <<>>, gasCost |-> TransferGas],
      [op |-> "SSTORE", stack |-> << <<0>>, <<2>> >>, gasCost |-> 5],
      [op |-> "SSTORE", stack |-> << <<1>>, <<2>> >>, gasCost |-> 200],
      [op |-> "SELFDESTRUCT", stack |-> <<ContractAddr>>, gasCost |-> 0],
      [op |-> "CALL", stack |-> << <<0>>, <<0>>, <<1>>, ContractAddr, <<9>> >>, gasCost |-> 7] }
    \cup { [op |-> "STATICCALL", stack |-> << <<0>>, <<0>>, to, <<9>> >>, gasCost |-> 7] :
              to \in {LowAddr(0, 1), LowAddr(0, 10), LowAddr(1, 8), LowAddr(1, 9)} }

\* The encodings of a trace: stack words with "0x" and no padding, or
\* without prefix and 64 wide; gas, gasCost and pc as hex strings or as
\* integers; depths counted from 1 or from 0.
Formats == [prefixed : BOOLEAN, hex : BOOLEAN, base : {0, 1}]

EncodeWord(format, digits) ==
    IF format.prefixed THEN Str(TRUE, Stripped(digits)) ELSE Str(FALSE, zfill(digits, WordLen))

EncodeNumber(format, n) ==
    IF format.hex THEN Str(TRUE, HexDigitsOf(n)) ELSE IntOf(n)

\* step k of a raw trace: a step of some kind, at some depth above the base
EncodeStep(format, kind, above, k) ==
    [op |-> kind.op,
     depth |-> format.base + above,
     stack |-> [w \in DOMAIN kind.stack |-> EncodeWord(format, kind.stack[w])],
     gas |-> EncodeNumber(format, 9),
     gasCost |-> EncodeNumber(format, kind.gasCost),
     pc |-> EncodeNumber(format, k)]

\* Nothing is computed yet.  The raw trace has one to MaxSteps steps of any
\* kind in one encoding, the first at the base depth, the others there or
\* one call deeper.
InitTrace ==
    /\ height = 0
    /\ included = [t \in Txs |-> NoReceipt]
    /\ pooled = [t \in Txs |-> t = Original]
    /\ reorgs = 0
    /\ rec = [t \in Txs |-> NewRecord]
    /\ history = <<>>
    /\ th = [x \in Threads |-> Off]
    /\ calls = 0
    /\ tx = 0 /\ obj = 0 /\ rd = 0
    /\ \E n \in 1..MaxSteps, format \in Formats, gas_used \in {TransferGas, TransferGas + 7} :
       \E kinds \in [1..n -> StepKinds], above \in [1..n -> {0, 1}] :
          /\ above[1] = 0
          /\ inp = [raw |-> [k \in 1..n |-> EncodeStep(format, kinds[k], above[k], k)],
                    gas_used |-> gas_used]
    /\ out = [phase |-> "raw"]

\* _get_trace, lines 686-719
NormalizeTrace ==
    /\ out.phase = "raw"
    /\ out' = [phase |-> "normal", trace |-> Normalize(inp.raw)]
    /\ UNCHANGED <<tracker, tx, obj, rd, inp>>

\* _expand_trace, and the subcalls property on its result
ExpandTrace ==
    /\ out.phase = "normal"
    /\ LET e == Expand(out.trace, ReceiverAddr) IN
       out' = [phase |-> "expanded", trace |-> e.trace, raised |-> e.raised,
               _subcalls |-> e.subcalls, subcalls |-> Filtered(e.subcalls),
               _internal_transfers |-> e.internal_transfers,
               _new_contracts |-> e.new_contracts,
               _call_cost |-> CallCost(out.trace, inp.gas_used)]
    /\ UNCHANGED <<tracker, tx, obj, rd, inp>>

\* _get_trace_gas(0, len(trace)), as call_trace asks for it (line 1158)
MeasureTrace ==
    /\ out.phase = "expanded"
    /\ out.raised = "no"
    /\ out' = [out EXCEPT !.phase = "measured"] @@
              [gas |-> _get_trace_gas(out.trace, 1, Len(out.trace) + 1)]
    /\ UNCHANGED <<tracker, tx, obj, rd, inp>>

NextTrace == NormalizeTrace \/ ExpandTrace \/ MeasureTrace

SpecTrace == InitTrace /\ [][NextTrace]_vars

\* ---------------------------------------------------------------------------
\* The resolution of the revert reason on its own: _reverted_trace on the
\* trace of a reverted transaction, for a deployment or a call, with the
\* developer messages the build and the registry have.
\* ---------------------------------------------------------------------------

\* Longest trace of a reverted transaction
MaxRevertSteps == 3

\* a number as a word of the stack
NumberWord(n) == GethWord(HexDigitsOf(n))

\* the hex digits of a sequence of bytes
HexOf(bytes) ==
    [i \in 1..(2 * Len(bytes)) |->
        IF i % 2 = 1 THEN bytes[(i + 1) \div 2] \div 16 ELSE bytes[i \div 2] % 16]

\* The return data of revert(message): the selector of Error(string), the
\* offset of the string (32), its length, and its bytes padded to whole
\* words, as hex digits
EncodeError(codes) ==
    ErrorSelector \o zfill(HexDigitsOf(32), WordLen) \o zfill(HexDigitsOf(Len(codes)), WordLen)
    \o HexOf(codes) \o Zeros((WordLen - ((2 * Len(codes)) % WordLen)) % WordLen)

RECURSIVE Words(_)
\* the memory that holds the given digits: words of 32 bytes, the last one
\* filled with zeros
Words(digits) ==
    IF digits = <<>> THEN <<>>
    ELSE IF Len(digits) <= WordLen THEN <<digits \o Zeros(WordLen - Len(digits))>>
    ELSE <<SubSeq(digits, 1, WordLen)>> \o Words(SubSeq(digits, WordLen + 1, Len(digits)))

\* Return data that is no Error(string): four bytes of another selector
OtherData == <<1, 2, 3, 4, 5, 6, 7, 8>>

\* A REVERT that returns Error(message) from the memory at an offset, after
\* bytes of another kind; message is the string the contract gave
Reason(codes, offset) ==
    [op |-> "REVERT",
     stack |-> <<NumberWord(Len(EncodeError(codes)) \div 2), NumberWord(offset)>>,
     memory |-> Words([i \in 1..(2 * offset) |-> 15] \o EncodeError(codes)),
     message |-> Text(Chars(codes))]

\* The steps the trace of a reverted transaction is made of: a REVERT with a
\* message, also an empty one, one whose memory ends before its padding, one
\* with data of another kind, and one without data; an INVALID; a CODECOPY
\* of more code than a contract may have and one of a single word (the
\* arguments of a constructor); a call into a contract; a stop.
RevertKinds ==
    { Reason(<<97>>, 0), Reason(<<97, 98>>, 32), Reason(<<>>, 0),
      [Reason(<<98>>, 0) EXCEPT !.memory = SubSeq(@, 1, Len(@) - 1)],
      [op |-> "REVERT", stack |-> <<NumberWord(4), NumberWord(0)>>,
       memory |-> Words(OtherData), message |-> None],
      [op |-> "REVERT", stack |-> <<NumberWord(0), NumberWord(0)>>,
       memory |-> <<>>, message |-> None],
      [op |-> "INVALID", stack |-> <<>>, memory |-> <<>>, message |-> None],
      [op |-> "CODECOPY",
       stack |-> <<NumberWord(CodeSizeLimit + 1), NumberWord(0), NumberWord(0)>>,
       memory |-> <<>>, message |-> None],
      [op |-> "CODECOPY",
       stack |-> <<NumberWord(32), NumberWord(0), NumberWord(0)>>,
       memory |-> <<>>, message |-> None],
      [op |-> "CALL", stack |-> CallStack(ContractAddr, 0), memory |-> <<>>,
       message |-> None],
      [op |-> "STOP", stack |-> <<>>, memory |-> <<>>, message |-> None] }

\* step k of the trace, as geth sends it with enableMemory
RevertStep(kind, depth, k) ==
    [op |-> kind.op, depth |-> depth, stack |-> kind.stack, memory |-> kind.memory,
     gas |-> IntOf(0), gasCost |-> IntOf(0), pc |-> IntOf(k)]

\* The depths a node can report for steps of the given kinds: the first step
\* and the last run at depth 0; a step runs one call deeper only after a
\* CALL or a step that deep; a step that ends its call is followed by the
\* caller, and none follows the end of the transaction.
Executable(kinds, above) ==
    LET n == Len(kinds)
        Ends(k) == kinds[k].op \in {"REVERT", "INVALID", "STOP"}
    IN  /\ above[1] = 0 /\ above[n] = 0
        /\ \A k \in 2..n : above[k] = 1 => (kinds[k - 1].op = "CALL" \/ above[k - 1] = 1)
        /\ \A k \in 1..(n - 1) : Ends(k) => (above[k] = 1 /\ above[k + 1] = 0)
        /\ kinds[n].op # "STOP"

\* The record of a reverted transaction when _get_trace has stored the raw
\* trace (line 681) and no revert data came with the receipt.  The build has
\* a developer message for at most one program counter.
InitRevert ==
    /\ height = 0
    /\ included = [t \in Txs |-> NoReceipt]
    /\ pooled = [t \in Txs |-> t = Original]
    /\ reorgs = 0
    /\ rec = [t \in Txs |-> NewRecord]
    /\ history = <<>>
    /\ th = [x \in Threads |-> Off]
    /\ calls = 0
    /\ rd = 0
    /\ \E n \in 1..MaxRevertSteps, deploy \in BOOLEAN, registry \in RegistryAnswers :
       \E kinds \in [1..n -> RevertKinds], above \in [1..n -> {0, 1}],
          dev_reverts \in {{}} \cup {{k} : k \in 1..n} :
          /\ Executable(kinds, above)
          /\ inp = [kinds |-> kinds]
          /\ tx = [status |-> Reverted, plain |-> FALSE, supports |-> TRUE,
                   steps |-> [k \in 1..n |-> RevertStep(kinds[k], above[k], k)],
                   deploy |-> deploy, dev_reverts |-> dev_reverts, registry |-> registry]
          /\ obj = [NewObject EXCEPT !._raw_trace =
                       List([k \in 1..n |-> RevertStep(kinds[k], above[k], k)])]
    /\ out = [phase |-> "retrieved", raised |-> "no"]

\* _get_trace, line 724: the revert reason is resolved from the trace
ResolveRevert ==
    /\ out.phase = "retrieved"
    /\ obj' = _reverted_trace(obj, tx.steps)
    /\ out' = [phase |-> "resolved", raised |-> RevertResult(obj, tx.steps).raised,
               seen |-> RevertResult(obj, tx.steps).seen]
    /\ UNCHANGED <<tracker, tx, rd, inp>>

\* revert_msg, lines 307-315, on the resolved record: what the property
\* returns
ReadRevertMsg ==
    /\ out.phase = "resolved"
    /\ out.raised = "no"
    /\ out' = [out EXCEPT !.phase = "read"] @@ [value |-> obj._revert_msg]
    /\ UNCHANGED <<tracker, tx, obj, rd, inp>>

NextRevert == ResolveRevert \/ ReadRevertMsg

SpecRevert == InitRevert /\ [][NextRevert]_vars

\* ---------------------------------------------------------------------------
\* replace() on its own: one call on a record of any status, with any
\* arguments, for a sender of any kind.
\* ---------------------------------------------------------------------------

\* a number that is not None
Num(n) == [num |-> n]

\* Wei(price * factor), the factor counted in tenths
Scaled(price, tenths) == Num((price.num * tenths) \div 10)

\* The arguments of replace(): a multiplier (1.1 or 2, in tenths) or none, an
\* absolute gas price or none
ReplaceArgs == [increment : {None, Num(11), Num(20)}, gas_price : {None, Num(7)}]

\* The records replace() is called on: any status; a nonce; a gas price or
\* none, max_fee and priority_fee (EIP-1559) or none; the sender an account
\* of this session, or an address that is or is not in accounts
ReplaceRecords ==
    [status : {Dropped, Pending, Reverted, Confirmed}, nonce : {0, 4},
     gas_price : {None, Num(5)}, max_fee : {None, Num(9)}, priority_fee : {None, Num(30)},
     sender : {"account", "unlocked", "foreign"}]

\* the call that did not broadcast
NotSent(exc) == [raised |-> exc, sent |-> None]

\* replace() without the check of the status
replace_any_status(self, increment, gas_price) ==
    IF increment = None /\ gas_price = None THEN NotSent("ValueError")
    ELSE IF gas_price # None /\ increment # None THEN NotSent("ValueError")
    ELSE LET price == IF self.gas_price = None THEN gas_price
                      ELSE IF increment # None THEN Scaled(self.gas_price, increment.num)
                      ELSE gas_price
             fees == self.max_fee # None /\ self.priority_fee # None
         IN  IF self.sender = "foreign" THEN NotSent("ValueError")
             ELSE [raised |-> "no",
                   sent |-> [gas_price |-> IF fees THEN None ELSE price,
                             max_fee |-> IF fees THEN price ELSE None,
                             priority_fee |-> IF fees THEN Scaled(self.priority_fee, 11)
                                              ELSE None,
                             nonce |-> self.nonce, required_confs |-> 0]]

\* replace(), lines 351-424: ValueError unless exactly one of increment and
\* gas_price is given, and when the status is above -1; the new price; the
\* sender, which must be an account or an address in accounts; the transfer
\* with the nonce of this transaction and required_confs = 0
replace(self, increment, gas_price) ==
    IF increment = None /\ gas_price = None THEN NotSent("ValueError")
    ELSE IF gas_price # None /\ increment # None THEN NotSent("ValueError")
    ELSE IF self.status > -1 THEN NotSent("ValueError")
    ELSE LET price == IF self.gas_price = None THEN gas_price
                      ELSE IF increment # None THEN Scaled(self.gas_price, increment.num)
                      ELSE gas_price
             fees == self.max_fee # None /\ self.priority_fee # None
         IN  IF self.sender = "foreign" THEN NotSent("ValueError")
             ELSE [raised |-> "no",
                   sent |-> [gas_price |-> IF fees THEN None ELSE price,
                             max_fee |-> IF fees THEN price ELSE None,
                             priority_fee |-> IF fees THEN Scaled(self.priority_fee, 11)
                                              ELSE None,
                             nonce |-> self.nonce, required_confs |-> 0]]

InitReplace ==
    /\ height = 0
    /\ included = [t \in Txs |-> NoReceipt]
    /\ pooled = [t \in Txs |-> t = Original]
    /\ reorgs = 0
    /\ rec = [t \in Txs |-> NewRecord]
    /\ history = <<>>
    /\ th = [x \in Threads |-> Off]
    /\ calls = 0
    /\ tx = 0 /\ obj = 0 /\ rd = 0
    /\ \E self \in ReplaceRecords, args \in ReplaceArgs : inp = [self |-> self, args |-> args]
    /\ out = [phase |-> "idle"]

\* one call of replace()
ReplaceCall ==
    /\ out.phase = "idle"
    /\ out' = [phase |-> "done"] @@ replace(inp.self, inp.args.increment, inp.args.gas_price)
    /\ UNCHANGED <<tracker, tx, obj, rd, inp>>

NextReplace == ReplaceCall

SpecReplace == InitReplace /\ [][NextReplace]_vars

\* ---------------------------------------------------------------------------
\* Claims about the access to the trace
\* ---------------------------------------------------------------------------

C14_FailureReplayed ==
    [][\A r \in DOMAIN rd :
          (/\ obj.failed /\ tx.status >= 0
           /\ rd'[r] # rd[r] /\ rd'[r].pc = "idle"
           /\ rd'[r].prop \in {"trace", "subcalls"}) =>
             rd'[r].raised \in {"payload", "timeout", "requires"}]_vars


\* C15: with two readers of one record, whatever the interleaving, one
\* raw-trace request and one expansion are made at most, and while no
\* retrieval has failed the record never holds an empty expanded trace for
\* a transaction whose trace has steps.
C15_RaceFree ==
    /\ obj.requests <= 1
    /\ obj.expansions <= 1
    /\ (tx.steps # <<>> /\ ~obj.failed /\ obj._trace # None) => obj._trace.list # <<>>


\* C16: for a mined plain transfer (empty input, 21000 gas used) no raw-trace
\* request is ever made, whichever properties are read, the trace property
\* gives the empty list and modified_state gives False.
C16_PlainTransfer ==
    (tx.plain /\ tx.status >= 0) =>
        /\ obj.requests = 0
        /\ obj._trace \in {None, List(<<>>)}
        /\ \A r \in DOMAIN rd :
              /\ (rd[r].pc = "idle" /\ rd[r].prop = "trace") =>
                    rd[r].raised = "no" /\ rd[r].value = List(<<>>)
              /\ (rd[r].pc = "idle" /\ rd[r].prop = "modified_state") =>
                    rd[r].raised = "no" /\ rd[r].value = Bool(FALSE)

\* A confirmed plain transfer on a node without the trace endpoint has
\* given its empty trace, and the record holds modified_state False.
C16_Witness ==
    /\ tx.plain /\ tx.status = Confirmed /\ ~tx.supports
    /\ rd["caller"].pc = "idle" /\ rd["caller"].prop = "trace"
    /\ rd["caller"].value = List(<<>>)
    /\ obj._modified_state = Bool(FALSE)


\* the node's trace of the transaction has an SSTORE step
HasStore == \E i \in DOMAIN tx.steps : tx.steps[i].op = "SSTORE"

\* the raw trace was asked for and the node's answer, a result, has arrived
Retrieved ==
    /\ obj.requests = 1 /\ ~obj.failed
    /\ \A r \in DOMAIN rd : rd[r].pc # "request"

\* C17: for a Confirmed transaction whose trace was retrieved, the record's
\* modified_state, and what the property gives, is True exactly when some
\* step of the trace is an SSTORE.
C17_ModifiedIffStore ==
    (tx.status = Confirmed /\ Retrieved) =>
        /\ obj._modified_state = Bool(HasStore)
        /\ \A r \in DOMAIN rd :
              (rd[r].pc = "idle" /\ rd[r].prop = "modified_state") =>
                  rd[r].raised = "no" /\ rd[r].value = Bool(HasStore)

\* modified_state has given True for a confirmed transaction whose trace
\* stores and then stops.
C17_Witness ==
    /\ tx.status = Confirmed /\ Retrieved /\ HasStore
    /\ tx.steps[Len(tx.steps)].op = "STOP"
    /\ rd["caller"].pc = "idle" /\ rd["caller"].prop = "modified_state"
    /\ rd["caller"].value = Bool(TRUE)


\* C24: while the status of a record is Pending or Dropped, every access to a
\* trace-dependent property returns None, asks the node for no raw trace and
\* leaves every cached field of the record as it was.
C24_NullWhileUnconfirmed ==
    [][tx.status < 0 =>
          /\ obj' = obj
          /\ \A r \in DOMAIN rd :
                rd'[r] # rd[r] => /\ rd'[r].pc = "idle"
                                  /\ rd'[r].raised = "no"
                                  /\ rd'[r].value = None]_vars

\* C24 witness: the events of a pending transaction were read and are None,
\* and nothing is cached
C24_Witness ==
    /\ tx.status = Pending
    /\ rd["caller"] = Returns("events", None)
    /\ obj = NewObject

\* ---------------------------------------------------------------------------
\* Claims about the trace functions
\* ---------------------------------------------------------------------------

\* C18: whichever of the encodings a non-empty raw trace comes in, after
\* normalisation every stack word of every step is 64 hex characters
\* without prefix, and gas, gasCost and pc of every step are integers.
C18_Normalized ==
    out.phase = "normal" =>
        \A i \in DOMAIN out.trace :
            /\ \A w \in DOMAIN out.trace[i].stack :
                  /\ IsStr(out.trace[i].stack[w])
                  /\ ~out.trace[i].stack[w].prefixed
                  /\ Len(out.trace[i].stack[w].digits) = WordLen
            /\ ~IsStr(out.trace[i].gas)
            /\ ~IsStr(out.trace[i].gasCost)
            /\ ~IsStr(out.trace[i].pc)

\* A trace with prefixed stack words and hex numbers, whose first step has
\* an empty stack, is normalised.
C18_Witness ==
    /\ out.phase = "normal"
    /\ Len(inp.raw) >= 2
    /\ inp.raw[1].stack = <<>>
    /\ inp.raw[2].stack # <<>>
    /\ inp.raw[2].stack[1].prefixed
    /\ Len(inp.raw[2].stack[1].digits) < WordLen
    /\ IsStr(inp.raw[2].gasCost)
    /\ Len(out.trace[2].stack[1].digits) = WordLen


RECURSIVE SumCost(_)
\* the gas costs of the steps of a trace, added up
SumCost(steps) ==
    IF steps = <<>> THEN 0 ELSE Head(steps).gasCost.val + SumCost(Tail(steps))

\* the refunds a trace is due: 15000 for each SSTORE that writes zero, 24000
\* for each SELFDESTRUCT
Refunds(steps) ==
    StoreRefund * Cardinality({i \in DOMAIN steps :
                      steps[i].op = "SSTORE" /\ int16(Back(steps[i].stack, 2)) = 0})
    + DestructRefund * Cardinality({i \in DOMAIN steps : steps[i].op = "SELFDESTRUCT"})

\* C19, as claimed: the total of the gas range over the whole trace is the
\* transaction's gas used less the refunds.
C19_TotalIsGasUsed ==
    out.phase = "measured" => out.gas.total_gas = inp.gas_used - Refunds(out.trace)

\* C19, amended: the total of the gas range over the whole trace is the sum
\* of the gas costs of the steps of the expanded trace less the refunds; the
\* gas used by the transaction does not enter it.
C19_TotalIsStepCost ==
    out.phase = "measured" => out.gas.total_gas = SumCost(out.trace) - Refunds(out.trace)

\* A whole trace with a store of zero and a self-destruct is measured, and
\* its total is not the gas used less the refunds.
C19_Witness ==
    /\ out.phase = "measured"
    /\ \E i \in DOMAIN out.trace :
          out.trace[i].op = "SSTORE" /\ int16(Back(out.trace[i].stack, 2)) = 0
    /\ \E i \in DOMAIN out.trace : out.trace[i].op = "SELFDESTRUCT"
    /\ out.gas.total_gas = SumCost(out.trace) - StoreRefund - DestructRefund
    /\ out.gas.total_gas # inp.gas_used - Refunds(out.trace)


\* The addresses the precompile pattern stands for: 38 zeros followed by 01
\* to 09 or by 10 to 18
PatternAddresses ==
    {LowAddr(0, d) : d \in 1..9} \cup {LowAddr(1, d) : d \in 0..8}

\* C20: whatever the trace, no entry of the subcalls list given to callers
\* has a callee address that matches the precompile pattern, and the list
\* is the list of the subcalls found without those entries, in their order.
C20_NoPrecompileSubcall ==
    out.phase \in {"expanded", "measured"} =>
        /\ \A i \in DOMAIN out.subcalls : out.subcalls[i].to \notin PatternAddresses
        /\ Len(out.subcalls) =
              Cardinality({i \in DOMAIN out._subcalls : out._subcalls[i].to \notin PatternAddresses})
        /\ \A i \in DOMAIN out.subcalls : \E k \in DOMAIN out._subcalls :
              k >= i /\ out._subcalls[k] = out.subcalls[i]

\* A trace is expanded in which a precompile was called, and another
\* address as well: the list given holds the second call only.
C20_Witness ==
    /\ out.phase = "expanded"
    /\ out.raised = "no"
    /\ \E i \in DOMAIN out._subcalls : out._subcalls[i].to = LowAddr(0, 1)
    /\ Len(out.subcalls) = 1
    /\ Len(out._subcalls) = 2



\* ---------------------------------------------------------------------------
\* Claims about the revert reason
\* ---------------------------------------------------------------------------

\* the REVERT that ends the execution, when the trace ends with one
EndsInRevert == out.phase = "resolved" /\ tx.steps[Len(tx.steps)].op = "REVERT"

\* the kind of the last step, with the message the contract gave
LastKind == inp.kinds[Len(inp.kinds)]

\* the last step returns no data
NoData == int16(Back(tx.steps[Len(tx.steps)].stack, 2)) = 0

\* a deployment whose first CODECOPY copies more code than a contract may
\* have
Oversized ==
    /\ tx.deploy
    /\ \E k \in DOMAIN tx.steps :
          /\ tx.steps[k].op = "CODECOPY"
          /\ int16(Back(tx.steps[k].stack, 3)) > CodeSizeLimit
          /\ \A j \in 1..(k - 1) : tx.steps[j].op # "CODECOPY"

\* the developer messages the build and the registry have for the reverting
\* steps of the trace
Annotations ==
    {Text(DevOfBuild) : k \in {j \in RevertSteps(tx.steps) : tx.steps[j].pc.val \in tx.dev_reverts}}
    \cup (IF tx.registry = "dev" THEN {Text(DevOfMap)} ELSE {})
    \cup (IF tx.registry = "source" THEN {Text(DevOfSource)} ELSE {})

\* the messages of the REVERT steps before the last step: the string of an
\* Error(string), other data as it is
EarlierMessages ==
    {IF inp.kinds[k].message # None THEN inp.kinds[k].message
     ELSE [raw |-> Str(TRUE, OtherData)] :
        k \in {j \in 1..(Len(inp.kinds) - 1) :
                  inp.kinds[j].op = "REVERT" /\ int16(Back(inp.kinds[j].stack, 2)) # 0}}

\* C21 as claimed: when the trace of a reverted transaction ends with a REVERT
\* that returns Error(message), the revert message of the record is that
\* message; when it ends with a REVERT that returns nothing, the revert
\* message is the empty string.
C21_RevertRoundTrip ==
    EndsInRevert =>
        /\ LastKind.message # None => obj._revert_msg = LastKind.message
        /\ NoData => obj._revert_msg = Text("")

\* C21, amended: when the trace ends with a REVERT that returns
\* Error(message), the revert message is that message; when it ends with a
\* REVERT that returns nothing, the revert message is a developer message
\* found for a reverting step or the message of an earlier REVERT with data
\* when there is one, and the empty string when there is none; a deployment
\* that copied more code than the size limit has the message of the limit
\* in both cases.
C21_RevertMessage ==
    EndsInRevert =>
        IF Oversized THEN obj._revert_msg = Text("exceeds EIP-170 size limit")
        ELSE /\ LastKind.message # None => obj._revert_msg = LastKind.message
             /\ NoData => obj._revert_msg \in {Text("")} \cup Annotations \cup EarlierMessages
             /\ NoData /\ Annotations = {} /\ EarlierMessages = {}
                    => obj._revert_msg = Text("")

\* C21 witness: a call has reverted with Error("ab"), returned from the
\* second word of the memory, and the record has that message
C21_Witness ==
    /\ EndsInRevert
    /\ ~tx.deploy
    /\ LastKind = Reason(<<97, 98>>, 32)
    /\ obj._revert_msg = Text("ab")

\* C22: the resolution of the revert reason of a reverted transaction whose
\* trace was retrieved ends without exception and leaves a revert message
\* that is not None.
C22_NeverRaises ==
    out.phase = "resolved" => out.raised = "no" /\ obj._revert_msg # None


\* ---------------------------------------------------------------------------
\* Claims about replace()
\* ---------------------------------------------------------------------------

\* replace() was called with exactly one of increment and gas_price
OneGiven == (inp.args.increment = None) # (inp.args.gas_price = None)

\* C23 as claimed: replace() raises ValueError and broadcasts nothing when the
\* status is Confirmed or Reverted or when not exactly one of increment and
\* gas_price is given; in every other case the replacement is sent with the
\* nonce of the original and zero required confirmations.
C23_ReplaceUnlessConfirmed ==
    out.phase = "done" =>
        IF inp.self.status \in {Confirmed, Reverted} \/ ~OneGiven
        THEN out.raised = "ValueError" /\ out.sent = None
        ELSE /\ out.raised = "no"
             /\ out.sent # None
             /\ out.sent.nonce = inp.self.nonce
             /\ out.sent.required_confs = 0

\* C23, amended: replace() raises ValueError and broadcasts nothing when the
\* status is Confirmed or Reverted, when not exactly one of increment and
\* gas_price is given, or when the sender is an address that is not in
\* accounts; in every other case the replacement is sent with the nonce of
\* the original and zero required confirmations.
C23_ReplaceBySender ==
    out.phase = "done" =>
        IF inp.self.status \in {Confirmed, Reverted} \/ ~OneGiven
           \/ inp.self.sender = "foreign"
        THEN out.raised = "ValueError" /\ out.sent = None
        ELSE /\ out.raised = "no"
             /\ out.sent # None
             /\ out.sent.nonce = inp.self.nonce
             /\ out.sent.required_confs = 0

\* C23 witness: a dropped transaction of nonce 4 is replaced at 1.1 times its
\* gas price
C23_Witness ==
    /\ out.phase = "done"
    /\ inp.self.status = Dropped
    /\ inp.self.nonce = 4
    /\ inp.args.increment = Num(11)
    /\ out.sent # None
    /\ out.sent.nonce = 4


\* ---------------------------------------------------------------------------
\* Claims about the tracker under fair scheduling
\* ---------------------------------------------------------------------------

\* C25: once the transaction is in a block of a chain that is not reorganised
\* and keeps growing, its watcher, whatever confirmations it was asked for,
\* ends in the end with the status of the record equal to the status of the
\* receipt and the completion signal set.
C25_EventuallyConfirmed ==
    (HasReceipt(included[Original]) /\ th[Original].pc # "off")
        ~> (/\ th[Original].pc = "done"
            /\ rec[Original].status = included[Original].status
            /\ rec[Original].confirmed)


\* C26: over any sequence of accesses of one reader to the properties of one
\* record, the node is asked for the raw trace of the record once at most, and
\* the expansion is applied to the trace once at most.
C26_OnceOnly == obj.requests <= 1 /\ obj.expansions <= 1

\* A confirmed transaction whose modified_state was just read from the cache
\* after one request and one expansion: reading modified_state never expands,
\* so another access came before it.
C26_Witness ==
    /\ tx.status = Confirmed /\ tx.steps # <<>>
    /\ obj.requests = 1 /\ obj.expansions = 1
    /\ rd["caller"] = Returns("modified_state", obj._modified_state)
    /\ obj._modified_state # None


\* ---------------------------------------------------------------------------
\* The expansion of traces with calls and creations: a raw trace as a node
\* sends it is normalised and expanded.
\* ---------------------------------------------------------------------------

\* Longest trace with calls
MaxCallSteps == 3

\* The instructions that call or create
ExternalOps == {"CALL", "STATICCALL", "DELEGATECALL", "CALLCODE", "CREATE", "CREATE2"}

\* The address of a contract created by the transaction
CreatedAddr == <<13>> \o Zeros(AddrLen - 3) \o <<0, 2>>

\* The steps of a trace with calls: a CALL with and without value, a static
\* and a delegate call, a CALLCODE with value, a CREATE with and without value,
\* a CREATE2 with value (their value on top of the stack), a step that has
\* the address of a created contract on top of the stack, and a stop.
CallKinds ==
    { [op |-> "CALL", stack |-> << <<0>>, <<0>>, <<v>>, ContractAddr, <<9>> >>, gasCost |-> 7] :
          v \in {0, 1} }
    \cup { [op |-> o, stack |-> << <<0>>, <<0>>, ContractAddr, <<9>> >>, gasCost |-> 7] :
              o \in {"STATICCALL", "DELEGATECALL"} }
    \cup { [op |-> "CALLCODE", stack |-> << <<0>>, <<0>>, <<1>>, ContractAddr, <<9>> >>,
            gasCost |-> 7] }
    \cup { [op |-> "CREATE", stack |-> << <<0>>, <<0>>, <<v>> >>, gasCost |-> 7] : v \in {0, 1} }
    \cup { [op |-> "CREATE2", stack |-> << <<5>>, <<0>>, <<0>>, <<1>> >>, gasCost |-> 7],
           [op |-> "SWAP1", stack |-> << <<0>>, CreatedAddr >>, gasCost |-> 3],
           [op |-> "STOP", stack |-> <<>>, gasCost |-> 0] }

\* The depths a node can report: a step runs one call deeper than the step
\* before it only after a call or a creation, and one call higher only after
\* the callee has stopped.
Nested(kinds, above) ==
    /\ above[1] = 0
    /\ \A k \in 2..Len(kinds) :
          /\ above[k] > above[k - 1] => kinds[k - 1].op \in ExternalOps
          /\ above[k] < above[k - 1] => kinds[k - 1].op = "STOP"

\* Nothing is computed yet.  The raw trace has one to MaxCallSteps steps in
\* the encoding of geth or of ganache.
InitCalls ==
    /\ height = 0
    /\ included = [t \in Txs |-> NoReceipt]
    /\ pooled = [t \in Txs |-> t = Original]
    /\ reorgs = 0
    /\ rec = [t \in Txs |-> NewRecord]
    /\ history = <<>>
    /\ th = [x \in Threads |-> Off]
    /\ calls = 0
    /\ tx = 0 /\ obj = 0 /\ rd = 0
    /\ \E n \in 1..MaxCallSteps :
       \E format \in {[prefixed |-> TRUE, hex |-> FALSE, base |-> 1],
                      [prefixed |-> FALSE, hex |-> TRUE, base |-> 0]} :
       \E kinds \in [1..n -> CallKinds], above \in [1..n -> {0, 1}] :
          /\ Nested(kinds, above)
          /\ inp = [raw |-> [k \in 1..n |-> EncodeStep(format, kinds[k], above[k], k)],
                    gas_used |-> TransferGas + 7]
    /\ out = [phase |-> "raw"]

\* call_trace, lines 1164-1168: the first step, and the steps whose depth or
\* jump depth differs from the step before
trace_index(steps) ==
    <<1>> \o SelectSeq([k \in 1..(Len(steps) - 1) |-> k + 1],
                       LAMBDA i : ~_step_compare(steps[i], steps[i - 1]))

\* call_trace, lines 1182-1185 and 1197-1204: the end of the frame that entry
\* i of the index opens, the next entry above it (for an internal frame,
\* also the next one of its depth with a lower jump depth), the end of the
\* trace when there is none
FrameEnd(steps, index, i, internal) ==
    LET here == steps[index[i]]
        after == {m \in (i + 1)..Len(index) :
                    \/ steps[index[m]].depth < here.depth
                    \/ /\ internal
                       /\ steps[index[m]].depth = here.depth
                       /\ steps[index[m]].jumpDepth < here.jumpDepth}
    IN  IF after = {} THEN Len(steps) + 1
        ELSE index[CHOOSE m \in after : \A q \in after : m <= q]

RECURSIVE FrameLoop(_, _, _, _, _)
\* call_trace, lines 1170-1210: the loop over the index from entry i on.  A
\* step that runs deeper than the entry before opens the frame of an external
\* call and takes the next subcall of the list (subcalls.pop() on the
\* reversed list); a step of the same depth with a higher jump depth opens an
\* internal frame; the other entries close frames.
FrameLoop(steps, index, i, found, frames) ==
    IF i > Len(index) THEN [frames |-> frames, raised |-> "no"]
    ELSE LET here == steps[index[i]]
             last == steps[index[i - 1]]
         IN  IF \/ here.depth = last.depth /\ here.jumpDepth < last.jumpDepth
                \/ here.depth < last.depth
             THEN FrameLoop(steps, index, i + 1, found, frames)
             ELSE IF here.depth > last.depth
             THEN IF found = <<>> THEN [frames |-> frames, raised |-> "IndexError"]
                  ELSE FrameLoop(steps, index, i + 1, Tail(found),
                         Append(frames,
                                [start |-> index[i],
                                 stop |-> FrameEnd(steps, index, i, FALSE),
                                 gas |-> _get_trace_gas(steps, index[i],
                                                        FrameEnd(steps, index, i, FALSE)),
                                 subcall |-> Head(found)]))
             ELSE FrameLoop(steps, index, i + 1, found,
                    Append(frames,
                           [start |-> index[i],
                            stop |-> FrameEnd(steps, index, i, TRUE),
                            gas |-> _get_trace_gas(steps, index[i],
                                                   FrameEnd(steps, index, i, TRUE)),
                            subcall |-> None]))

\* call_trace, lines 1156-1210: the frames below the frame of the transaction
\* in the order they are opened, each external one with its subcall, and the
\* exception the rendering ends with
call_trace(steps, found) == FrameLoop(steps, trace_index(steps), 2, found, <<>>)

\* call_trace on an expanded trace (the trace_inspection wrapper lets it run
\* on a trace that is there)
RenderCallTrace ==
    /\ out.phase = "expanded"
    /\ out.raised = "no"
    /\ out.trace # <<>>
    /\ out' = [out EXCEPT !.phase = "rendered"] @@
              [frames |-> call_trace(out.trace, out.subcalls).frames,
               render_raised |-> call_trace(out.trace, out.subcalls).raised]
    /\ UNCHANGED <<tracker, tx, obj, rd, inp>>

NextCalls == NormalizeTrace \/ ExpandTrace \/ RenderCallTrace

SpecCalls == InitCalls /\ [][NextCalls]_vars

\* ---------------------------------------------------------------------------
\* Claims about the subcalls and the internal transfers
\* ---------------------------------------------------------------------------

\* the steps of a trace that call or create, in their order
ExternalSteps(steps) ==
    SelectSeq([i \in DOMAIN steps |-> i], LAMBDA i : steps[i].op \in ExternalOps)

\* C27: the expansion gives one subcall for each CALL, STATICCALL,
\* DELEGATECALL, CALLCODE, CREATE and CREATE2 step of the trace, whether the
\* next step runs deeper or not, in the order of the steps.
C27_OnePerCall ==
    (out.phase = "expanded" /\ out.raised = "no") =>
        [i \in DOMAIN out._subcalls |-> out._subcalls[i].op]
            = [i \in DOMAIN ExternalSteps(out.trace) |->
                  out.trace[ExternalSteps(out.trace)[i]].op]


\* the value a call or a creation carries: the third word from the top of
\* the stack of a CALL or CALLCODE, the top of the stack of a CREATE or
\* CREATE2, nothing for a static or a delegate call
ValueOf(step) ==
    CASE step.op \in {"CALL", "CALLCODE"} -> int16(Back(step.stack, 3))
      [] step.op \in {"CREATE", "CREATE2"} -> int16(Back(step.stack, 1))
      [] OTHER -> 0

\* the steps of a trace that call or create with a value, in their order
ValuedSteps(steps) ==
    SelectSeq(ExternalSteps(steps), LAMBDA i : ValueOf(steps[i]) # 0)

\* C28: the internal transfers are, in the order of the steps, one entry for
\* each call or creation of the trace that carries a value, from the contract
\* that runs the step and with that value, whether the next step runs deeper
\* or not, and no entry for a call or creation without value.
C28_OnePerValue ==
    (out.phase = "expanded" /\ out.raised = "no") =>
        [i \in DOMAIN out._internal_transfers |->
            [from |-> out._internal_transfers[i].from,
             value |-> out._internal_transfers[i].value]]
        = [i \in DOMAIN ValuedSteps(out.trace) |->
            [from |-> out.trace[ValuedSteps(out.trace)[i]].address,
             value |-> ValueOf(out.trace[ValuedSteps(out.trace)[i]])]]


\* ---------------------------------------------------------------------------
\* The gas of a range of steps: _get_trace_gas(start, stop) on an expanded
\* trace whose steps run at several depths and jump depths.
\* ---------------------------------------------------------------------------

\* Longest trace measured
MaxGasSteps == 4

\* Deepest call of a trace measured
MaxGasDepth == 2

\* The steps of a trace measured: a call, a store of zero and of one (the
\* value is under the slot) and a self-destruct, each with its gas cost
GasKinds ==
    { [op |-> "CALL", stack |-> <<>>, gasCost |-> 700],
      [op |-> "SSTORE", stack |-> <<Str(TRUE, <<0>>), Str(TRUE, <<1>>)>>, gasCost |-> 5000],
      [op |-> "SSTORE", stack |-> <<Str(TRUE, <<1>>), Str(TRUE, <<0>>)>>, gasCost |-> 20000],
      [op |-> "SELFDESTRUCT", stack |-> <<Str(TRUE, <<1>>)>>, gasCost |-> 3] }

\* step of an expanded trace
GasTraceStep(kind, depth, jumpDepth) ==
    [op |-> kind.op, stack |-> kind.stack, gasCost |-> IntOf(kind.gasCost),
     depth |-> depth, jumpDepth |-> jumpDepth]

\* An expanded trace of one to MaxGasSteps steps, starting at depth 0, each
\* step at the depth of the one before it, one deeper or one higher, and at
\* jump depth 0 or 1; and a range of it that is not empty.
InitGas ==
    /\ height = 0
    /\ included = [t \in Txs |-> NoReceipt]
    /\ pooled = [t \in Txs |-> t = Original]
    /\ reorgs = 0
    /\ rec = [t \in Txs |-> NewRecord]
    /\ history = <<>>
    /\ th = [x \in Threads |-> Off]
    /\ calls = 0
    /\ tx = 0 /\ obj = 0 /\ rd = 0
    /\ \E n \in 1..MaxGasSteps :
       \E kinds \in [1..n -> GasKinds], depths \in [1..n -> 0..MaxGasDepth],
          jumps \in [1..n -> {0, 1}] :
       \E start \in 1..n :
       \E stop \in (start + 1)..(n + 1) :
          /\ depths[1] = 0
          /\ \A k \in 2..n : depths[k] - depths[k - 1] \in {-1, 0, 1}
          /\ inp = [trace |-> [k \in 1..n |-> GasTraceStep(kinds[k], depths[k], jumps[k])],
                    start |-> start, stop |-> stop]
    /\ out = [phase |-> "range"]

\* _get_trace_gas(start, stop), as call_trace asks for it (lines 1186, 1207)
MeasureRange ==
    /\ out.phase = "range"
    /\ out' = [phase |-> "gas", gas |-> _get_trace_gas(inp.trace, inp.start, inp.stop)]
    /\ UNCHANGED <<tracker, tx, obj, rd, inp>>

NextGas == MeasureRange

SpecGas == InitGas /\ [][NextGas]_vars


\* ---------------------------------------------------------------------------
\* Claims about the gas of a range
\* ---------------------------------------------------------------------------

\* the steps of the range measured
Range == inp.start..(inp.stop - 1)

\* step i runs in the context of the first step of the range
InContext(i) ==
    /\ inp.trace[i].depth = inp.trace[inp.start].depth
    /\ inp.trace[i].jumpDepth = inp.trace[inp.start].jumpDepth

\* the steps of the range that run in the context of its first step
OwnSteps == {i \in Range : InContext(i)}

\* the steps of the range that run inside a call made from that depth
NestedSteps == {i \in Range : inp.trace[i].depth > inp.trace[inp.start].depth}

\* the steps of the context of the range that hand over to a deeper step of
\* the range
HandingSteps == {i \in OwnSteps : i + 1 \in NestedSteps}

\* the range starts with the first step of a call
JustEntered ==
    inp.start > 1 /\ inp.trace[inp.start].depth > inp.trace[inp.start - 1].depth

\* what a step refunds
RefundOf(step) ==
    IF step.op = "SSTORE" /\ HexValue(step.stack[Len(step.stack) - 1].digits) = 0 THEN 15000
    ELSE IF step.op = "SELFDESTRUCT" THEN 24000
    ELSE 0

RECURSIVE CostOf(_)
\* the gas costs of a set of steps
CostOf(S) ==
    IF S = {} THEN 0
    ELSE LET i == CHOOSE k \in S : TRUE IN inp.trace[i].gasCost.val + CostOf(S \ {i})

RECURSIVE NetOf(_)
\* the gas costs of a set of steps less their refunds
NetOf(S) ==
    IF S = {} THEN 0
    ELSE LET i == CHOOSE k \in S : TRUE
         IN  inp.trace[i].gasCost.val - RefundOf(inp.trace[i]) + NetOf(S \ {i})

\* C29: in the gas of a range, a range whose steps all run at the depth and
\* jump depth of its first step has the same internal and total gas; the
\* steps inside a nested call count for the total and not for the internal
\* gas, which also leaves out the cost of the step that handed over to the
\* deeper depth; and when the first step has just entered a call, the cost of
\* the step before it is added to both.
C29_RangeGas ==
    out.phase = "gas" =>
        LET back == IF JustEntered THEN inp.trace[inp.start - 1].gasCost.val ELSE 0 IN
        /\ OwnSteps = Range => out.gas.internal_gas = out.gas.total_gas
        /\ out.gas.total_gas = back + NetOf(Range)
        /\ out.gas.internal_gas = back + NetOf(OwnSteps) - CostOf(HandingSteps)
        /\ out.gas.total_gas - out.gas.internal_gas
              = NetOf(Range \ OwnSteps) + CostOf(HandingSteps)

\* The range starts with the first step of a call, and a step of that call
\* hands over to a deeper one inside the range.
C29_Witness ==
    /\ out.phase = "gas"
    /\ JustEntered
    /\ HandingSteps # {}
    /\ out.gas.internal_gas < out.gas.total_gas


\* the steps of the range that store zero, and those that self-destruct
ZeroStores ==
    {i \in Range : /\ inp.trace[i].op = "SSTORE"
                   /\ HexValue(inp.trace[i].stack[Len(inp.trace[i].stack) - 1].digits) = 0}

Destructs == {i \in Range : inp.trace[i].op = "SELFDESTRUCT"}

\* C30: in the gas of a range, each SSTORE of the range that writes zero
\* lowers the total gas by 15000 and each SELFDESTRUCT by 24000; the internal
\* gas is lowered by the same amount exactly for those of these steps that
\* run at the depth and jump depth of the first step; no other step changes
\* a figure by more than gas costs.
C30_Refunds ==
    out.phase = "gas" =>
        LET back == IF JustEntered THEN inp.trace[inp.start - 1].gasCost.val ELSE 0 IN
        /\ out.gas.total_gas = back + CostOf(Range)
              - 15000 * Cardinality(ZeroStores) - 24000 * Cardinality(Destructs)
        /\ out.gas.internal_gas = back + CostOf(OwnSteps) - CostOf(HandingSteps)
              - 15000 * Cardinality(ZeroStores \cap OwnSteps)
              - 24000 * Cardinality(Destructs \cap OwnSteps)

\* A range with a store of zero in the context of its first step and a
\* self-destruct and a store of one outside it
C30_Witness ==
    /\ out.phase = "gas"
    /\ ZeroStores \cap OwnSteps # {}
    /\ Destructs \ OwnSteps # {}
    /\ \E i \in Range : inp.trace[i].op = "SSTORE" /\ i \notin ZeroStores
    /\ out.gas.total_gas - out.gas.internal_gas
          = CostOf(Range \ OwnSteps) + CostOf(HandingSteps) - 24000 * Cardinality(Destructs)


\* the last reverting step of the trace, 0 when there is none
LastRevert ==
    IF RevertSteps(tx.steps) = {} THEN 0
    ELSE CHOOSE i \in RevertSteps(tx.steps) : \A j \in RevertSteps(tx.steps) : j <= i

\* step k is a REVERT that returns data
Carries(k) == tx.steps[k].op = "REVERT" /\ int16(Back(tx.steps[k].stack, 2)) # 0

\* the decoding of the data step k returns
DecodingOf(k) == decode_typed_error(Str(TRUE, _get_memory(tx.steps[k], 1)))

\* C31 as claimed: when the last reverting step of the trace is a REVERT that
\* returns data, the revert message is the decoding of that data whatever
\* the earlier REVERT steps return; an earlier reverting step is looked at
\* only when every later one returned no data and gave no developer message.
C31_LastRevertFirst ==
    out.phase = "resolved" =>
        /\ (LastRevert # 0 /\ Carries(LastRevert)) =>
              obj._revert_msg = DecodingOf(LastRevert) /\ out.seen = {LastRevert}
        /\ \A k \in out.seen : \A j \in RevertSteps(tx.steps) :
              j > k => j \in out.seen /\ ~Carries(j) /\ tx.steps[j].pc.val \notin tx.dev_reverts

\* C31, amended: the same, but for a deployment whose first CODECOPY copies
\* more than 24577 bytes, which has the message of the size limit and no
\* reverting step looked at.
C31_LastRevertUnlessOversized ==
    out.phase = "resolved" =>
        IF Oversized
        THEN obj._revert_msg = Text("exceeds EIP-170 size limit") /\ out.seen = {}
        ELSE /\ (LastRevert # 0 /\ Carries(LastRevert)) =>
                   obj._revert_msg = DecodingOf(LastRevert) /\ out.seen = {LastRevert}
             /\ \A k \in out.seen : \A j \in RevertSteps(tx.steps) :
                   j > k => /\ j \in out.seen /\ ~Carries(j)
                            /\ tx.steps[j].pc.val \notin tx.dev_reverts

\* A call reverts with Error("ab") after a call of its own has reverted with
\* Error("a"): the message is "ab", and the earlier step was not looked at.
C31_Witness ==
    /\ out.phase = "resolved"
    /\ ~tx.deploy
    /\ LastKind = Reason(<<97, 98>>, 32)
    /\ Text("a") \in EarlierMessages
    /\ obj._revert_msg = Text("ab")
    /\ out.seen = {Len(tx.steps)}



\* a deployment whose trace has a CODECOPY of more code than a contract may
\* have, at any place
CopiesTooMuch ==
    /\ tx.deploy
    /\ \E k \in DOMAIN tx.steps :
          /\ tx.steps[k].op = "CODECOPY"
          /\ int16(Back(tx.steps[k].stack, 3)) > CodeSizeLimit

\* C32: for a reverted deployment whose trace has a CODECOPY step that copies
\* more than 24577 bytes, the revert message is 'exceeds EIP-170 size
\* limit', the developer message is empty and no reverting step is looked at.
C32_SizeLimit ==
    (out.phase = "resolved" /\ CopiesTooMuch) =>
        /\ obj._revert_msg = Text("exceeds EIP-170 size limit")
        /\ obj._dev_revert_msg = Text("")
        /\ out.seen = {}

\* The same when the CODECOPY that copies too much is the first of the trace.
C32_FirstCopy ==
    (out.phase = "resolved" /\ Oversized) =>
        /\ obj._revert_msg = Text("exceeds EIP-170 size limit")
        /\ obj._dev_revert_msg = Text("")
        /\ out.seen = {}



\* the frames of external calls among the rendered frames
ExternalFrames == {i \in DOMAIN out.frames : out.frames[i].subcall # None}

\* C35: each frame of an external call in the rendered call tree has the
\* subcall made for the call step that comes just before the first step of
\* the frame (its opcode, and its value for a CALL or CALLCODE), also when a
\* call to an account without code came earlier in the trace.
C35_FrameOfItsCall ==
    (out.phase = "rendered" /\ out.render_raised = "no") =>
        \A i \in ExternalFrames :
            LET frame == out.frames[i]
                step == out.trace[frame.start - 1]
            IN  /\ frame.subcall.op = step.op
                /\ step.op \in {"CALL", "CALLCODE"} => frame.subcall.value = ValueOf(step)

\* the same for the traces in which every call and creation is followed by
\* a deeper step
C35_WhenEveryCallEnters ==
    (/\ out.phase = "rendered" /\ out.render_raised = "no"
     /\ \A k \in 1..(Len(out.trace) - 1) :
           out.trace[k].op \in ExternalOps => out.trace[k + 1].depth > out.trace[k].depth) =>
        \A i \in ExternalFrames :
            LET frame == out.frames[i]
                step == out.trace[frame.start - 1]
            IN  /\ frame.subcall.op = step.op
                /\ step.op \in {"CALL", "CALLCODE"} => frame.subcall.value = ValueOf(step)



\* ---------------------------------------------------------------------------
\* The call contexts of the expansion: the loop of _expand_trace step by
\* step, on traces of contracts that have a program-counter map.  The traces
\* have calls, jumps and stops and no creations; the contracts are not part
\* of a project, so no coverage is evaluated.
\* ---------------------------------------------------------------------------

\* Longest trace with jumps
MaxContextSteps == 4

\* The contracts the state knows (state._find_contract): the receiver and the
\* contract that is called, by name; an address that is not there has no
\* build information
ContractNames == [a \in {ReceiverAddr, ContractAddr} |-> IF a = ReceiverAddr THEN "A" ELSE "B"]

\* the method of the receiver the input of the transaction selects
ReceiverSig == "f"

\* _get_last_map, lines 1449-1474: the context of a call to address with the
\* selector sig.  A contract that is known starts in the method of the
\* selector, or under its own name when it has no such method; another one
\* has no program-counter map.
_get_last_map(address, sig, pc_map) ==
    IF address \in DOMAIN ContractNames
    THEN [address |-> address, jumpDepth |-> 0, name |-> Text(ContractNames[address]),
          known |-> TRUE, pc_map |-> pc_map,
          internal_calls |-> <<IF sig = ReceiverSig
                               THEN ContractNames[address] \o "." \o sig
                               ELSE ContractNames[address]>>]
    ELSE [address |-> address, jumpDepth |-> 0, name |-> None,
          known |-> FALSE, pc_map |-> None,
          internal_calls |-> <<"<UnknownContract>." \o sig>>]

\* _expand_trace, line 904: the context of depth d is replaced
EnterContextAll(last_map, d, context) == [e \in DOMAIN last_map \cup {d} |-> context]

EnterContext(last_map, d, context) == (d :> context) @@ last_map

\* _expand_trace, lines 879-926 for a trace without creations: the step
\* before step k (the last step for the first one) has called when step k
\* runs deeper or when it is a CALL, STATICCALL or DELEGATECALL.  A deeper
\* step starts a new context at its depth.  The calls of these traces send no
\* data, so the selector is "0x".
ContextCall(st, k) ==
    LET steps == st.trace
        j == IF k = 1 THEN Len(steps) ELSE k - 1
        step == steps[j]
        is_depth_increase == steps[k].depth > step.depth
        is_subcall == step.op \in call_opcodes
        needed == IF step.op \in {"CALL", "CALLCODE"} THEN 5 ELSE 4
    IN  IF ~(is_depth_increase \/ is_subcall) THEN st
        ELSE IF Len(step.stack) < needed THEN [st EXCEPT !.raised = "IndexError"]
        ELSE RecordSubcall(
               [st EXCEPT !.last_map =
                   IF is_depth_increase
                   THEN EnterContext(@, steps[k].depth,
                                     _get_last_map(AddressOf(Back(step.stack, 2)), "0x",
                                                   st.pc_map))
                   ELSE @],
               j, AddressOf(Back(step.stack, 2)))

\* _expand_trace, lines 929-936: a step with the address, the contract, the
\* active function and the jump depth of its context
WithContext(step, last) ==
    [f \in DOMAIN step \cup {"address", "contractName", "fn", "jumpDepth"} |->
        CASE f = "address" -> last.address
          [] f = "contractName" -> last.name
          [] f = "fn" -> Back(last.internal_calls, 1)
          [] f = "jumpDepth" -> last.jumpDepth
          [] OTHER -> step[f]]

\* _expand_trace, lines 1022-1028: a jump into an internal function.  The
\* function is the one of the next step; a next step that is not there or
\* has no function changes nothing, and a function that is the active one
\* already is not entered again.
JumpIn(last, steps, k) ==
    IF \/ k = Len(steps)
       \/ steps[k + 1].pc.val \notin DOMAIN last.pc_map
       \/ "fn" \notin DOMAIN last.pc_map[steps[k + 1].pc.val]
    THEN last
    ELSE IF last.pc_map[steps[k + 1].pc.val].fn = Back(last.internal_calls, 1) THEN last
    ELSE [last EXCEPT !.internal_calls = Append(@, last.pc_map[steps[k + 1].pc.val].fn),
                      !.jumpDepth = @ + 1]

\* a return from an internal function whatever the jump depth
JumpOutAlways(last) ==
    [last EXCEPT !.internal_calls = SubSeq(@, 1, Len(@) - 1), !.jumpDepth = @ - 1]

\* _expand_trace, lines 1029-1032: a return from an internal function, while
\* the jump depth is above 0
JumpOut(last) ==
    IF last.jumpDepth > 0
    THEN [last EXCEPT !.internal_calls = SubSeq(@, 1, Len(@) - 1), !.jumpDepth = @ - 1]
    ELSE last

\* _expand_trace, lines 973-1032 without the coverage: the context after
\* step k.  Nothing changes without a program-counter map, for a program
\* counter that is not in it, and for an entry without function or without
\* jump.
AfterJump(last, steps, k) ==
    IF ~last.known \/ steps[k].pc.val \notin DOMAIN last.pc_map THEN last
    ELSE IF {"fn", "jump"} \ DOMAIN last.pc_map[steps[k].pc.val] # {} THEN last
    ELSE IF last.pc_map[steps[k].pc.val].jump = "i" THEN JumpIn(last, steps, k)
    ELSE JumpOut(last)

\* _expand_trace, lines 879-1032: step k of the loop.  The step takes the
\* values of the context of its depth, a CALL with a value is an internal
\* transfer, and a jump changes the context after that.
ContextStep(st, k) ==
    Once({
      IF a.raised # "no" THEN a
      ELSE IF a.trace[k].depth \notin DOMAIN a.last_map THEN [a EXCEPT !.raised = "KeyError"]
      ELSE IF a.last_map[a.trace[k].depth].internal_calls = <<>>
      THEN [a EXCEPT !.raised = "IndexError"]
      ELSE IF a.trace[k].op = "CALL" /\ Len(a.trace[k].stack) < 3
      THEN [a EXCEPT !.address = (k :> a.last_map[a.trace[k].depth].address) @@ @,
                     !.trace[k] = WithContext(@, a.last_map[a.trace[k].depth]),
                     !.raised = "IndexError"]
      ELSE [a EXCEPT !.address = (k :> a.last_map[a.trace[k].depth].address) @@ @,
                     !.trace[k] = WithContext(@, a.last_map[a.trace[k].depth]),
                     !.internal_transfers =
                        IF a.trace[k].op = "CALL" /\ int16(Back(a.trace[k].stack, 3)) # 0
                        THEN Append(@, [from |-> a.last_map[a.trace[k].depth].address,
                                        to |-> AddressOf(Back(a.trace[k].stack, 2)),
                                        value |-> int16(Back(a.trace[k].stack, 3))])
                        ELSE @,
                     !.last_map[a.trace[k].depth] = AfterJump(@, a.trace, k)] :
      a \in {ContextCall(st, k)} })

\* The entries of the program-counter map and the steps they belong to: a
\* step in the function f or g, a step that is not in the map, a JUMP into a
\* function from f and a JUMPI from g, a JUMP that returns, a call of the
\* known contract and of an address without build information, and a stop.
ContextKinds ==
    { [op |-> "PUSH1", stack |-> <<>>, entry |-> [path |-> 1, fn |-> n]] : n \in {"A.f", "A.g"} }
    \cup { [op |-> "PUSH1", stack |-> <<>>, entry |-> None],
           [op |-> "JUMP", stack |-> <<>>, entry |-> [path |-> 1, fn |-> "A.f", jump |-> "i"]],
           [op |-> "JUMPI", stack |-> <<>>, entry |-> [path |-> 1, fn |-> "A.g", jump |-> "i"]],
           [op |-> "JUMP", stack |-> <<>>, entry |-> [path |-> 1, fn |-> "A.g", jump |-> "o"]],
           [op |-> "CALL", stack |-> CallStack(ContractAddr, 0), entry |-> [path |-> 1, fn |-> "A.g"]],
           [op |-> "CALL", stack |-> CallStack(LowAddr(7, 7), 0), entry |-> None],
           [op |-> "STOP", stack |-> <<>>, entry |-> [path |-> 1, fn |-> "A.f"]] }

\* The depths a node can report: a step runs one call deeper than the step
\* before it only after a call, and one call higher only after a stop; a
\* stop at depth 0 ends the trace.
Called(kinds, above) ==
    /\ above[1] = 0
    /\ \A k \in 2..Len(kinds) :
          /\ above[k] > above[k - 1] => (kinds[k - 1].op = "CALL" /\ above[k] = above[k - 1] + 1)
          /\ above[k] < above[k - 1] => (kinds[k - 1].op = "STOP" /\ above[k] = above[k - 1] - 1)
          /\ kinds[k - 1].op = "STOP" => above[k] < above[k - 1]

\* The expansion after lines 843-878: the lists are empty and the receiver
\* runs at depth 0 in the method of the input.  The program counter of a
\* step is its place in the trace.
InitContext ==
    /\ height = 0
    /\ included = [t \in Txs |-> NoReceipt]
    /\ pooled = [t \in Txs |-> t = Original]
    /\ reorgs = 0
    /\ rec = [t \in Txs |-> NewRecord]
    /\ history = <<>>
    /\ th = [x \in Threads |-> Off]
    /\ calls = 0
    /\ tx = 0 /\ obj = 0 /\ rd = 0
    /\ \E n \in 1..MaxContextSteps :
       \E kinds \in [1..n -> ContextKinds], above \in [1..n -> 0..2] :
          /\ Called(kinds, above)
          /\ inp = [kinds |-> kinds]
          /\ out = [phase |-> "expanding", i |-> 1, raised |-> "no",
                    trace |-> [k \in 1..n |->
                                 [GethStep(kinds[k].op, above[k], kinds[k].stack, 3)
                                    EXCEPT !.pc = IntOf(k)]],
                    pc_map |-> [k \in {m \in 1..n : kinds[m].entry # None} |-> kinds[k].entry],
                    subcalls |-> <<>>, internal_transfers |-> <<>>,
                    address |-> [k \in {} |-> <<>>],
                    last_map |-> [d \in {0} |->
                                    _get_last_map(ReceiverAddr, ReceiverSig,
                                       [k \in {m \in 1..n : kinds[m].entry # None} |->
                                           kinds[k].entry])]]

\* one step of the loop of _expand_trace
ExpandNext ==
    /\ out.phase = "expanding"
    /\ out.raised = "no"
    /\ out.i <= Len(out.trace)
    /\ out' = [ContextStep(out, out.i) EXCEPT !.i = @ + 1]
    /\ UNCHANGED <<tracker, tx, obj, rd, inp>>

\* the end of the loop, or the exception that leaves it
ExpandEnd ==
    /\ out.phase = "expanding"
    /\ out.raised # "no" \/ out.i > Len(out.trace)
    /\ out' = [out EXCEPT !.phase = "expanded"]
    /\ UNCHANGED <<tracker, tx, obj, rd, inp>>

NextContext == ExpandNext \/ ExpandEnd

SpecContext == InitContext /\ [][NextContext]_vars



\* ---------------------------------------------------------------------------
\* Claims about the call contexts
\* ---------------------------------------------------------------------------

\* the steps the loop has gone through
Expanded == DOMAIN out.address

\* C33: at every point of the loop, in the context of every depth the jump
\* depth is at least 0 and is the length of the stack of internal calls
\* minus one; every step the loop has gone through has a jump depth of at
\* least 0 and an active function whose name is not empty.
C33_JumpDepth ==
    /\ \A d \in DOMAIN out.last_map :
          /\ out.last_map[d].jumpDepth >= 0
          /\ out.last_map[d].jumpDepth = Len(out.last_map[d].internal_calls) - 1
    /\ \A k \in Expanded : out.trace[k].jumpDepth >= 0 /\ out.trace[k].fn # ""

\* The loop has ended on a trace that enters g, returns from it, and returns
\* once more at jump depth 0: the last return changes nothing.
C33_Witness ==
    /\ out.phase = "expanded" /\ out.raised = "no"
    /\ Len(inp.kinds) = 4
    /\ inp.kinds[1].op = "JUMP" /\ inp.kinds[1].entry.jump = "i"
    /\ inp.kinds[2].op = "JUMP" /\ inp.kinds[2].entry.jump = "o"
    /\ inp.kinds[3].op = "JUMP" /\ inp.kinds[3].entry.jump = "o"
    /\ out.trace[2].jumpDepth = 1 /\ out.trace[2].fn = "A.g"
    /\ out.trace[3].jumpDepth = 0
    /\ out.trace[4].jumpDepth = 0 /\ out.trace[4].fn = "A.f"

\* step k is a jump that the program-counter map of its context (a contract
\* with build information) tags as entering the function of the next step
Enters(k) ==
    /\ k \in Expanded
    /\ k < Len(out.trace)
    /\ out.trace[k].contractName # None
    /\ k \in DOMAIN out.pc_map /\ (k + 1) \in DOMAIN out.pc_map
    /\ out.trace[k].op \in {"JUMP", "JUMPI"}
    /\ "jump" \in DOMAIN out.pc_map[k] /\ out.pc_map[k].jump = "i"

\* C34: after a JUMP or JUMPI step that the map tags as entering an internal
\* function, the context of the step has the function of the target on top
\* of its internal calls and a jump depth that is one more than the step's,
\* also when the function that is entered is the active one.
C34_EnterPushes ==
    \A k \in Expanded :
        (Enters(k) /\ k = out.i - 1) =>
            /\ out.last_map[out.trace[k].depth].jumpDepth = out.trace[k].jumpDepth + 1
            /\ out.last_map[out.trace[k].depth].internal_calls
                  = Append(SubSeq(out.last_map[out.trace[k].depth].internal_calls, 1,
                                  out.trace[k].jumpDepth + 1),
                           out.pc_map[k + 1].fn)

\* the same for the jumps into a function that is not the active one
C34_EnterAnother ==
    \A k \in Expanded :
        (Enters(k) /\ k = out.i - 1 /\ out.pc_map[k + 1].fn # out.trace[k].fn) =>
            /\ out.last_map[out.trace[k].depth].jumpDepth = out.trace[k].jumpDepth + 1
            /\ Back(out.last_map[out.trace[k].depth].internal_calls, 1) = out.pc_map[k + 1].fn

\* the step where the execution was at the depth of step k before the calls
\* that have returned at step k
CallOf(k) == CHOOSE j \in 1..(k - 1) :
                /\ out.trace[j].depth = out.trace[k].depth
                /\ \A m \in (j + 1)..(k - 1) : out.trace[m].depth > out.trace[k].depth

\* C36: a step of the loop changes the context of the depth of its step and
\* no other, and the first step after a nested call has returned takes the
\* address, the contract, the active function and the jump depth that the
\* call step had.
C36_CallerContext ==
    [][(out.phase = "expanding" /\ out'.phase = "expanding" /\ out'.raised = "no") =>
          /\ \A d \in DOMAIN out.last_map :
                d # out.trace[out.i].depth => out'.last_map[d] = out.last_map[d]
          /\ (out.i > 1 /\ out.trace[out.i].depth < out.trace[out.i - 1].depth) =>
                LET here == out'.trace[out.i]
                    call == out'.trace[CallOf(out.i)]
                IN  /\ here.address = call.address
                    /\ here.contractName = call.contractName
                    /\ here.fn = call.fn
                    /\ here.jumpDepth = call.jumpDepth]_vars

\* The receiver has entered g and calls the known contract from there; the
\* contract stops, and the next step of the receiver runs in g at jump depth
\* 1 while the step of the contract ran at jump depth 0 under its own name.
C36_Witness ==
    /\ out.phase = "expanded" /\ out.raised = "no"
    /\ Len(out.trace) = 4
    /\ out.trace[2].op = "CALL" /\ out.trace[2].jumpDepth = 1
    /\ out.trace[3].depth = 1 /\ out.trace[3].address = ContractAddr
    /\ out.trace[3].fn = "B" /\ out.trace[3].jumpDepth = 0
    /\ out.trace[4].depth = 0 /\ out.trace[4].address = ReceiverAddr
    /\ out.trace[4].fn = "A.g" /\ out.trace[4].jumpDepth = 1



\* C37: in every state a record whose completion signal is set has a status
\* other than Pending, and a signal that is set stays set.
C37_SignalAfterStatus ==
    [][/\ \A t \in Txs : rec[t].confirmed => rec[t].status # Pending
       /\ \A t \in Txs : rec'[t].confirmed => rec'[t].status # Pending
       /\ \A t \in Txs : rec[t].confirmed => rec'[t].confirmed]_vars

\* Both signals are set: the original's by its own watcher after its
\* receipt, the replacement's by the watcher of the original, which marked
\* it Dropped before and has ended.
C37_Witness ==
    /\ rec[Original].confirmed /\ rec[Original].status = Confirmed
    /\ rec[Replacement].confirmed /\ rec[Replacement].status = Dropped
    /\ th[Original].pc = "done"



\* the properties that give the lists of the expansion
ListProperties == {"internal_transfers", "new_contracts", "subcalls"}

\* C38: for a Confirmed transaction whose trace retrieval has not failed,
\* every access of internal_transfers, new_contracts and subcalls ends with a
\* list, never with None and never with an exception, whatever was read
\* before, also for a plain transfer and for an empty trace.
C38_AlwaysLists ==
    [][\A r \in DOMAIN rd :
          (/\ tx.status = Confirmed /\ ~obj'.failed
           /\ rd'[r] # rd[r] /\ rd'[r].pc = "idle"
           /\ rd'[r].prop \in ListProperties) =>
             /\ rd'[r].raised = "no"
             /\ "list" \in DOMAIN rd'[r].value]_vars

\* the same for the transactions that are not plain transfers
C38_ListsUnlessPlain ==
    [][\A r \in DOMAIN rd :
          (/\ tx.status = Confirmed /\ ~obj'.failed /\ ~tx.plain
           /\ rd'[r] # rd[r] /\ rd'[r].pc = "idle"
           /\ rd'[r].prop \in ListProperties) =>
             /\ rd'[r].raised = "no"
             /\ "list" \in DOMAIN rd'[r].value]_vars



\* C39: the first step of a trace is never taken for the step after a call,
\* whatever the last step of the trace is: the loop goes through it without
\* a subcall, a new contract or a context of its own, so once the expansion
\* has run the first step has the address of the receiver and the subcalls
\* are those of the steps that do come before another.
C39_FirstStepPlain ==
    (out.phase = "expanded" /\ out.trace # <<>>) =>
        /\ "address" \in DOMAIN out.trace[1]
        /\ out.trace[1].address = ReceiverAddr
        /\ Len(out._subcalls) <= Len(out.trace) - 1

\* the same for the traces whose last step is no CALL, STATICCALL or
\* DELEGATECALL
C39_UnlessLastCalls ==
    (/\ out.phase = "expanded" /\ out.trace # <<>>
     /\ out.trace[Len(out.trace)].op \notin call_opcodes) =>
        /\ "address" \in DOMAIN out.trace[1]
        /\ out.trace[1].address = ReceiverAddr
        /\ Len(out._subcalls) <= Len(out.trace) - 1



\* ---------------------------------------------------------------------------
\* The gateway object (brownie.network.web3.Web3): connect, disconnect and the
\* supports_traces property, called in any order
\* ---------------------------------------------------------------------------

\* Most calls of connect in a behaviour
MaxConnects == 3

\* JSON-RPC error code of a method that does not exist
MethodNotFound == -32601

\* The URIs connect is called with, each with the kind of provider it gives
\* (none for a URI that is no socket path and starts with neither ws nor
\* http) and with what its node answers to a debug_traceTransaction request
\* without parameters: the code of a missing method, another error code
\* (the one of invalid parameters), or an HTTP error.
Uris ==
    [u \in {"http://full", "ws://light", "/run/node.ipc", "http://proxy", "ftp://none"} |->
        CASE u = "http://full" -> [kind |-> "http", answer |-> [code |-> MethodNotFound - 1]]
          [] u = "ws://light" -> [kind |-> "ws", answer |-> [code |-> MethodNotFound]]
          [] u = "/run/node.ipc" -> [kind |-> "ipc", answer |-> [code |-> MethodNotFound]]
          [] u = "http://proxy" -> [kind |-> "http", answer |-> [raised |-> "HTTPError"]]
          [] OTHER -> [kind |-> "none", answer |-> [raised |-> "HTTPError"]]]

\* __init__, lines 31-39: no provider, nothing known of the node.  probes
\* counts the requests made to the trace endpoint since the last connect and
\* probed is the provider that answered the last of them.
NewWeb3 ==
    [provider |-> None, _supports_traces |-> None, _custom_middleware |-> FALSE,
     connects |-> 0, probes |-> 0, probed |-> None]

\* supports_traces, lines 131-135: the endpoint is there unless the node
\* answers with the code of a missing method; an HTTP error counts as no
make_request(uri) ==
    IF "code" \in DOMAIN Uris[uri].answer
    THEN Bool(Uris[uri].answer.code # MethodNotFound)
    ELSE Bool(FALSE)

\* connect, lines 50-79: the middlewares are removed and the provider is
\* dropped; the URI gives an IPC, websocket or HTTP provider, or ValueError;
\* the middlewares are set again when the provider is connected.  What is
\* known of the trace endpoint is left as it is.
connect(uri, connected) ==
    /\ obj.connects < MaxConnects
    /\ IF Uris[uri].kind = "none"
       THEN /\ obj' = [obj EXCEPT !.provider = None, !._custom_middleware = FALSE,
                                  !.connects = @ + 1, !.probes = 0]
            /\ out' = [op |-> "connect", result |-> Text("ValueError")]
       ELSE /\ obj' = [obj EXCEPT !.provider = Text(uri), !._custom_middleware = connected,
                                  !.connects = @ + 1, !.probes = 0]
            /\ out' = [op |-> "connect", result |-> None]
    /\ UNCHANGED <<tracker, tx, rd, inp>>

\* disconnect, lines 105-113: with a provider, the provider and what is known
\* of its node are forgotten and the middlewares removed
disconnect ==
    /\ obj' = IF obj.provider = None THEN obj
              ELSE [obj EXCEPT !.provider = None, !._supports_traces = None,
                               !._custom_middleware = FALSE, !.probed = None]
    /\ out' = [op |-> "disconnect", result |-> None]
    /\ UNCHANGED <<tracker, tx, rd, inp>>

\* supports_traces, lines 122-137: False without provider; else the answer of
\* the node to a request without parameters, asked for when nothing is known
supports_traces ==
    /\ IF obj.provider = None
       THEN /\ obj' = obj
            /\ out' = [op |-> "supports_traces", result |-> Bool(FALSE)]
       ELSE IF obj._supports_traces = None
       THEN /\ obj' = [obj EXCEPT !._supports_traces = make_request(obj.provider.str),
                                  !.probes = @ + 1, !.probed = obj.provider]
            /\ out' = [op |-> "supports_traces", result |-> make_request(obj.provider.str)]
       ELSE /\ obj' = obj
            /\ out' = [op |-> "supports_traces", result |-> obj._supports_traces]
    /\ UNCHANGED <<tracker, tx, rd, inp>>

InitWeb3 ==
    /\ height = 0
    /\ included = [t \in Txs |-> NoReceipt]
    /\ pooled = [t \in Txs |-> t = Original]
    /\ reorgs = 0
    /\ rec = [t \in Txs |-> NewRecord]
    /\ history = <<>>
    /\ th = [x \in Threads |-> Off]
    /\ calls = 0
    /\ tx = 0 /\ rd = 0 /\ inp = 0
    /\ obj = NewWeb3
    /\ out = [op |-> "init", result |-> None]

NextWeb3 ==
    \/ \E uri \in DOMAIN Uris, connected \in BOOLEAN : connect(uri, connected)
    \/ disconnect
    \/ supports_traces

SpecWeb3 == InitWeb3 /\ [][NextWeb3]_vars

\* C40: whatever calls of connect, disconnect and supports_traces came
\* before, a read of supports_traces gives False without provider, and with
\* a provider what the node of that provider answers to the request (True
\* unless the error code is -32601); the node is asked once at most after
\* each connect.
C40_SupportsTraces ==
    /\ obj.probes <= 1
    /\ out.op = "supports_traces" =>
          out.result = IF obj.provider = None THEN Bool(FALSE)
                       ELSE make_request(obj.provider.str)

\* the same when what is known of the trace endpoint was asked of the
\* provider that is connected
C40_WhenAskedOfProvider ==
    /\ obj.probes <= 1
    /\ (out.op = "supports_traces" /\ obj.probed \in {None, obj.provider}) =>
          out.result = IF obj.provider = None THEN Bool(FALSE)
                       ELSE make_request(obj.provider.str)

=============================================================================
